---- MODULE Spec2Model ----
(***************************************************************************)
(* Workflow engine of the YTC trading system: the MasterOrchestrator's     *)
(* LangGraph graph (agents/orchestrator.py) and the uniform step wrapper   *)
(* BaseAgent.execute (agents/base.py).                                     *)
(*                                                                         *)
(* Abstractions: percentages and hours are integers; timestamps inside    *)
(* agent_outputs entries and alerts are not recorded; an Optional[str] is  *)
(* a sequence of zero or one strings (<< >> is None).                      *)
(***************************************************************************)
EXTENDS Integers, Sequences, FiniteSets, TLC

(* ------------------------------ bounds -------------------------------- *)

\* wall clock runs from 0 to MaxTime (hours)
MaxTime == 5
\* at most MaxFaults abnormal step outcomes (exception, error result,
\* failed collaborator check) per run
MaxFaults == 1
\* at most MaxTraversals calls of start_session / process_cycle per run
MaxTraversals == 2
\* longest list of closed trades a risk check is given
MaxTrades == 6

(* ------------------------- program constants -------------------------- *)

\* risk_per_trade_pct of the initial state, in percent
DefaultRiskPerTradePct == 1

\* recursion_limit given to the graph engine with every invocation
RecursionLimit == 100

\* _after_logging_route: "self._workflow_cycles > 5"
CycleLimit == 5
\* _check_phase_transition: session_config.get('duration_hours', 3)
DefaultSessionHours == 3
\* is_active: session_config.get('duration_hours', 4)
DefaultMaxHours == 4
\* _initialize_state: risk_config.get('max_session_risk_pct', 3.0)
DefaultMaxSessionRiskPct == 3
\* RiskManagementAgent: risk_config.get('max_positions', 3)
DefaultMaxPositions == 3
\* RiskManagementAgent: risk_config.get('max_total_exposure_pct', 3.0)
DefaultMaxExposurePct == 3
\* RiskManagementAgent: risk_config.get('consecutive_loss_limit', 5)
DefaultConsecutiveLossLimit == 5
\* account_config.get('initial_balance', 100000.0), in thousands
DefaultInitialBalance == 100
\* RiskManagementAgent / RealTimeMonitoringAgent: risk utilization alert level
RiskAlertPct == 70
\* RealTimeMonitoringAgent: alert_thresholds.get('pnl_warning_pct', -2.0), negated
PnlWarningPct == 2

None == << >>
Some(s) == << s >>

Phases == {"pre_market", "session_open", "active_trading", "post_market", "shutdown"}

\* the keys of self.agents, which are also the agent ids and the node names
AgentIds ==
  {"system_init", "risk_mgmt", "market_structure", "economic_calendar",
   "trend_definition", "strength_weakness", "setup_scanner", "entry_execution",
   "trade_management", "exit_execution", "monitoring", "session_review",
   "performance_analytics", "learning_optimization", "next_session_prep",
   "contingency", "logging_audit"}

ControlNodes == {"check_phase", "emergency_check"}

END == "__end__"

\* every node of the graph
Nodes == AgentIds \cup ControlNodes

\* mutant: a second edge leaves market_structure
Edges_fanout ==
  {<<"system_init", "risk_mgmt">>, <<"risk_mgmt", "market_structure">>,
   <<"market_structure", "economic_calendar">>, <<"market_structure", "trend_definition">>,
   <<"economic_calendar", "contingency">>, <<"contingency", "emergency_check">>,
   <<"trend_definition", "strength_weakness">>, <<"strength_weakness", "logging_audit">>,
   <<"monitoring", "setup_scanner">>, <<"setup_scanner", "entry_execution">>,
   <<"entry_execution", "trade_management">>, <<"trade_management", "exit_execution">>,
   <<"exit_execution", "logging_audit">>,
   <<"session_review", "performance_analytics">>,
   <<"performance_analytics", "learning_optimization">>,
   <<"learning_optimization", "next_session_prep">>,
   <<"next_session_prep", "logging_audit">>}

\* workflow.add_edge(a, b): the unconditional edges of the graph
Edges ==
  {<<"system_init", "risk_mgmt">>, <<"risk_mgmt", "market_structure">>,
   <<"market_structure", "economic_calendar">>,
   <<"economic_calendar", "contingency">>, <<"contingency", "emergency_check">>,
   <<"trend_definition", "strength_weakness">>, <<"strength_weakness", "logging_audit">>,
   <<"monitoring", "setup_scanner">>, <<"setup_scanner", "entry_execution">>,
   <<"entry_execution", "trade_management">>, <<"trade_management", "exit_execution">>,
   <<"exit_execution", "logging_audit">>,
   <<"session_review", "performance_analytics">>,
   <<"performance_analytics", "learning_optimization">>,
   <<"learning_optimization", "next_session_prep">>,
   <<"next_session_prep", "logging_audit">>}

\* mutant: the entry step runs before the scanner
Edge_misordered(n) ==
  CASE n = "monitoring" -> "entry_execution"
    [] n = "entry_execution" -> "setup_scanner"
    [] n = "setup_scanner" -> "trade_management"
    [] OTHER -> CHOOSE m \in Nodes : <<n, m>> \in Edges

\* mutant: the session_open chain ends the traversal without logging
Edge_drops_logging(n) ==
  IF n = "strength_weakness" THEN END
  ELSE CHOOSE m \in Nodes : <<n, m>> \in Edges

\* a graph whose opening chain leaves out the contingency step
Edge_skips_contingency(n) ==
  IF n = "economic_calendar" THEN "emergency_check"
  ELSE CHOOSE m \in Nodes : <<n, m>> \in Edges

\* the node an unconditional edge leads to
Edge(n) == CHOOSE m \in Nodes : <<n, m>> \in Edges

\* the agents whose outgoing edge is unconditional
ChainAgents == AgentIds \ {"logging_audit"}

\* conditional edge table of emergency_check
EmergencyEdges(r) ==
  CASE r = "continue" -> "check_phase"
    [] r = "stop" -> END

\* mutant: two targets of the table exchanged
PhaseEdges_swapped(r) ==
  CASE r = "pre_market" -> "logging_audit"
    [] r = "session_open" -> "trend_definition"
    [] r = "active_trading" -> "session_review"
    [] r = "post_market" -> "monitoring"
    [] r = "shutdown" -> END

\* conditional edge table of check_phase
PhaseEdges(r) ==
  CASE r = "pre_market" -> "logging_audit"
    [] r = "session_open" -> "trend_definition"
    [] r = "active_trading" -> "monitoring"
    [] r = "post_market" -> "session_review"
    [] r = "shutdown" -> END

\* a table whose loop-back re-enters the graph at the emergency check
LoggingEdges_rechecks(r) ==
  CASE r = "continue" -> "emergency_check"
    [] r = "end" -> END

\* conditional edge table of logging_audit
LoggingEdges(r) ==
  CASE r = "continue" -> "check_phase"
    [] r = "end" -> END

(* ------------------------------- state -------------------------------- *)

VARIABLES
  config,           \* the configuration dictionary given to the orchestrator
  session_state,    \* self.session_state: the scalar fields of the TradingState
  state,            \* the TradingState flowing through the graph in a traversal
  agent_outputs,    \* the dict object shared by every copy of the state
  alerts,           \* the list object shared by every copy of the state
  workflow_cycles,  \* self._workflow_cycles
  node,             \* next node of the running traversal, or "idle"
  now,              \* wall clock
  escaped,          \* TRUE when an exception left the graph traversal
  path,             \* nodes executed in the running/last traversal, in order
  loopbacks,        \* logging_audit -> check_phase edges taken in this traversal
  last,             \* the last operation: node, outcome, route, counter before it
  prev,             \* the TradingState the last operation started from
  faults,           \* abnormal outcomes so far
  traversals,       \* traversals started so far
  runner,           \* who calls the orchestrator: a caller, or a host loop
  first             \* what an earlier orchestrator of the same process ended with

vars == <<config, session_state, state, agent_outputs, alerts, workflow_cycles,
          node, now, escaped, path, loopbacks, last, prev, faults, traversals,
          runner, first>>


(* ------------------------ MasterOrchestrator -------------------------- *)

\* config.get(section, {}).get(key, default): a missing key is << >>
CfgGet(cfg, key, default) == IF cfg[key] = None THEN default ELSE cfg[key][1]

\* the TradingState built by the constructor
initialize_state(cfg, sid, t) ==
  [session_id           |-> sid,
   phase                |-> "pre_market",
   start_time           |-> t,
   account_balance      |-> CfgGet(cfg, "initial_balance", DefaultInitialBalance),
   initial_balance      |-> CfgGet(cfg, "initial_balance", DefaultInitialBalance),
   session_pnl          |-> 0,
   session_pnl_pct      |-> 0,
   risk_utilization     |-> 0,
   max_session_risk_pct |-> CfgGet(cfg, "max_session_risk_pct", DefaultMaxSessionRiskPct),
   instrument           |-> CfgGet(cfg, "instrument", "ETH-USDT"),
   market_structure     |-> None,
   trend                |-> None,
   strength_weakness    |-> None,
   positions            |-> << >>,
   open_positions_count |-> 0,
   trades_today         |-> << >>,
   system_health        |-> "initializing",
   emergency_stop       |-> FALSE,
   stop_reason          |-> None]

\* f"{x:.2f}" of a whole number
Fmt2f(x) == ToString(x) \o ".00"

LossLimitReason(pnl) == "Session loss limit reached: " \o Fmt2f(pnl) \o "%"
HealthReason == "Critical system health issue"

\* a loss check that sets the latch and leaves the reason as it was
check_pnl_limit_silent(st) ==
  IF st.session_pnl_pct <= -st.max_session_risk_pct
  THEN [st EXCEPT !.emergency_stop = TRUE]
  ELSE st

\* mutant: the limit itself does not trigger (< for <=)
check_pnl_limit_strict(st) ==
  IF st.session_pnl_pct < -st.max_session_risk_pct
  THEN [st EXCEPT !.emergency_stop = TRUE,
                  !.stop_reason = Some(LossLimitReason(st.session_pnl_pct))]
  ELSE st

\* the session P&L branch of _check_emergency
check_pnl_limit(st) ==
  IF st.session_pnl_pct <= -st.max_session_risk_pct
  THEN [st EXCEPT !.emergency_stop = TRUE,
                  !.stop_reason = Some(LossLimitReason(st.session_pnl_pct))]
  ELSE st

\* mutant: the latch is assigned the health test instead of only being set
check_system_health_assigns(st) ==
  [st EXCEPT !.emergency_stop = (st.system_health = "critical"),
             !.stop_reason = IF st.system_health = "critical" THEN Some(HealthReason)
                             ELSE st.stop_reason]

\* the system health branch of _check_emergency
check_system_health(st) ==
  IF st.system_health = "critical"
  THEN [st EXCEPT !.emergency_stop = TRUE, !.stop_reason = Some(HealthReason)]
  ELSE st

\* the control node emergency_check
check_emergency(st) == check_system_health(check_pnl_limit(st))

\* mutant: the router ignores the latch
route_emergency_always_continue(st) == "continue"

\* _route_emergency
route_emergency(st) == IF st.emergency_stop THEN "stop" ELSE "continue"

route_by_phase(st) == st.phase

\* placeholder in the source: always True
is_market_open == TRUE

\* mutant: the session ends when the duration is reached (>= for >)
check_phase_transition_at_duration(st, outputs, cfg, t) ==
  CASE st.phase = "pre_market" ->
         IF is_market_open THEN [st EXCEPT !.phase = "session_open"] ELSE st
    [] st.phase = "session_open" ->
         IF "trend" \in DOMAIN outputs THEN [st EXCEPT !.phase = "active_trading"] ELSE st
    [] st.phase = "active_trading" ->
         IF t - st.start_time >= CfgGet(cfg, "duration_hours", DefaultSessionHours)
         THEN [st EXCEPT !.phase = "post_market"] ELSE st
    [] st.phase = "post_market" ->
         IF "session_review" \in DOMAIN outputs THEN [st EXCEPT !.phase = "shutdown"] ELSE st
    [] OTHER -> st

\* mutant: an open market takes pre_market straight to active_trading
check_phase_transition_skips(st, outputs, cfg, t) ==
  CASE st.phase = "pre_market" ->
         IF is_market_open THEN [st EXCEPT !.phase = "active_trading"] ELSE st
    [] st.phase = "session_open" ->
         IF "trend" \in DOMAIN outputs THEN [st EXCEPT !.phase = "active_trading"] ELSE st
    [] st.phase = "active_trading" ->
         IF t - st.start_time > CfgGet(cfg, "duration_hours", DefaultSessionHours)
         THEN [st EXCEPT !.phase = "post_market"] ELSE st
    [] st.phase = "post_market" ->
         IF "session_review" \in DOMAIN outputs THEN [st EXCEPT !.phase = "shutdown"] ELSE st
    [] OTHER -> st

\* the control node check_phase; t is datetime.now() when it runs
check_phase_transition(st, outputs, cfg, t) ==
  CASE st.phase = "pre_market" ->
         IF is_market_open THEN [st EXCEPT !.phase = "session_open"] ELSE st
    [] st.phase = "session_open" ->
         IF "trend" \in DOMAIN outputs THEN [st EXCEPT !.phase = "active_trading"] ELSE st
    [] st.phase = "active_trading" ->
         IF t - st.start_time > CfgGet(cfg, "duration_hours", DefaultSessionHours)
         THEN [st EXCEPT !.phase = "post_market"] ELSE st
    [] st.phase = "post_market" ->
         IF "session_review" \in DOMAIN outputs THEN [st EXCEPT !.phase = "shutdown"] ELSE st
    [] OTHER -> st

\* mutant: the limit is reached one visit early (>= for >)
after_logging_route_early(st, cycles) ==
  [cycles |-> cycles + 1,
   route  |-> IF st.phase = "shutdown" \/ cycles + 1 >= CycleLimit THEN "end" ELSE "continue"]

\* mutant: the counter is compared before it is incremented
after_logging_route_stale(st, cycles) ==
  [cycles |-> cycles + 1,
   route  |-> IF st.phase = "shutdown" \/ cycles > CycleLimit THEN "end" ELSE "continue"]

\* a router that starts the count again when it ends a traversal
after_logging_route_resets(st, cycles) ==
  IF st.phase = "shutdown" \/ cycles + 1 > CycleLimit
  THEN [cycles |-> 0, route |-> "end"]
  ELSE [cycles |-> cycles + 1, route |-> "continue"]

\* a router that allows twice the cycles
after_logging_route_late(st, cycles) ==
  [cycles |-> cycles + 1,
   route  |-> IF st.phase = "shutdown" \/ cycles + 1 > 2 * CycleLimit THEN "end" ELSE "continue"]

\* the router after logging_audit: the incremented counter and the decision
after_logging_route(st, cycles) ==
  [cycles |-> cycles + 1,
   route  |-> IF st.phase = "shutdown" \/ cycles + 1 > CycleLimit THEN "end" ELSE "continue"]

\* mutant: the shutdown phase does not end the session
is_active_ignores_shutdown(st, cfg, t) ==
  IF st.emergency_stop THEN FALSE
  ELSE IF t - st.start_time > CfgGet(cfg, "duration_hours", DefaultMaxHours) THEN FALSE
  ELSE TRUE

\* a test that looks at the duration and the phase only
is_active_ignores_latch(st, cfg, t) ==
  IF t - st.start_time > CfgGet(cfg, "duration_hours", DefaultMaxHours) THEN FALSE
  ELSE IF st.phase = "shutdown" THEN FALSE
  ELSE TRUE

\* a test without the session timeout
is_active_no_timeout(st, cfg, t) ==
  IF st.emergency_stop THEN FALSE
  ELSE IF st.phase = "shutdown" THEN FALSE
  ELSE TRUE

\* is_active at time t
is_active(st, cfg, t) ==
  IF st.emergency_stop THEN FALSE
  ELSE IF t - st.start_time > CfgGet(cfg, "duration_hours", DefaultMaxHours) THEN FALSE
  ELSE IF st.phase = "shutdown" THEN FALSE
  ELSE TRUE

\* mutant: the shutdown also drops the open positions
emergency_shutdown_clears(st, reason) ==
  [st EXCEPT !.emergency_stop = TRUE,
             !.stop_reason = Some(reason),
             !.phase = "shutdown",
             !.positions = << >>,
             !.open_positions_count = 0,
             !.session_id = ""]

\* a shutdown that opens a new session record
emergency_shutdown_renews(st, reason) ==
  [st EXCEPT !.emergency_stop = TRUE, !.stop_reason = Some(reason),
             !.phase = "shutdown", !.session_id = "uuid-0"]

emergency_shutdown(st, reason) ==
  [st EXCEPT !.emergency_stop = TRUE, !.stop_reason = Some(reason), !.phase = "shutdown"]

\* _get_session_duration, in hours
get_session_duration(st, t) == t - st.start_time

\* a summary that counts the open positions as trades
get_session_summary_miscounts(st, al, t) ==
  [session_id |-> st.session_id,
   phase      |-> st.phase,
   duration   |-> get_session_duration(st, t),
   pnl        |-> st.session_pnl,
   pnl_pct    |-> st.session_pnl_pct,
   trades     |-> st.open_positions_count,
   positions  |-> st.open_positions_count,
   alerts     |-> Len(al)]

\* get_session_summary
get_session_summary(st, al, t) ==
  [session_id |-> st.session_id,
   phase      |-> st.phase,
   duration   |-> get_session_duration(st, t),
   pnl        |-> st.session_pnl,
   pnl_pct    |-> st.session_pnl_pct,
   trades     |-> Len(st.trades_today),
   positions  |-> st.open_positions_count,
   alerts     |-> Len(al)]


(* ----------------------------- BaseAgent ------------------------------ *)

\* add_alert: the alert carries the agent's id
add_alert(al, a, severity, message) ==
  Append(al, [severity |-> severity, message |-> message, agent_id |-> Some(a)])

\* mutant: the dictionary is created anew on every write
update_state_clears(outputs, a, result) ==
  a :> [status |-> result.status, result |-> Some(result), error |-> None]

\* _update_state: the agent's entry of agent_outputs after a returned result
update_state(outputs, a, result) ==
  (a :> [status |-> result.status, result |-> Some(result), error |-> None]) @@ outputs

\* mutant: the error is recorded without an alert
handle_error_no_alert(outputs, al, a, err) ==
  [agent_outputs |->
     (a :> [status |-> "error", result |-> None,
            error  |-> Some([agent_id |-> a, error |-> err.msg, error_type |-> err.type])])
     @@ outputs,
   alerts |-> al,
   propagated |-> FALSE]

\* mutant: the exception is re-raised instead of recorded
handle_error_reraises(outputs, al, a, err) ==
  [agent_outputs |-> outputs, alerts |-> al, propagated |-> TRUE]

\* _handle_error: the alert and the agent's entry after an exception
handle_error(outputs, al, a, err) ==
  [agent_outputs |->
     (a :> [status |-> "error", result |-> None,
            error  |-> Some([agent_id |-> a, error |-> err.msg, error_type |-> err.type])])
     @@ outputs,
   alerts |->
     Append(al, [severity |-> "critical",
                 message  |-> "Agent " \o a \o " failed: " \o err.msg,
                 agent_id |-> None]),
   propagated |-> FALSE]

\* the exception an agent's logic raises in the model
StepError == [msg |-> "boom", type |-> "RuntimeError"]

(* ------------------------- agents' _execute_logic --------------------- *)
(* Each returns [raised, st, alerts, result]: whether an exception left    *)
(* _execute_logic, the state and alerts after the in-place writes, and     *)
(* the returned dictionary (its status). env is what the collaborators do: *)
(* "ok", "fail" (a collaborator fails and the agent reports it), "raise"   *)
(* (an exception before the agent's first write).                          *)

Returned(st, al, status) == [raised |-> FALSE, st |-> st, alerts |-> al, result |-> [status |-> status]]
Raised(st, al) == [raised |-> TRUE, st |-> st, alerts |-> al, result |-> [status |-> "error"]]

RECURSIVE SumField(_, _)
SumField(ps, f) == IF ps = << >> THEN 0 ELSE ps[1][f] + SumField(Tail(ps), f)

Min(a, b) == IF a < b THEN a ELSE b

\* SystemInitAgent: the instrument table only knows GBP/USD
system_init_logic(st, al, env) ==
  LET all_checks_passed == st.instrument = "GBP/USD" /\ env = "ok" IN
  IF all_checks_passed
  THEN Returned([st EXCEPT !.account_balance = st.initial_balance,
                           !.system_health = "healthy"], al, "success")
  ELSE Returned(st, add_alert(al, "system_init", "critical", "System initialization failed"),
                "success")

\* RiskManagementAgent._count_consecutive_losses
RECURSIVE count_consecutive_losses(_)
count_consecutive_losses(trades) ==
  IF trades = << >> THEN 0
  ELSE IF trades[Len(trades)].pnl < 0
       THEN 1 + count_consecutive_losses(SubSeq(trades, 1, Len(trades) - 1))
       ELSE 0

\* limits that bind only once they are exceeded (> for >=)
check_risk_limits_exceeded(st, cfg) ==
  LET bal == st.account_balance
      v1 == IF bal > 0 THEN st.session_pnl * 100 < -st.max_session_risk_pct * bal
                       ELSE 0 < -st.max_session_risk_pct
      v2 == Len(st.positions) > CfgGet(cfg, "max_positions", DefaultMaxPositions)
      v3 == IF bal > 0 THEN SumField(st.positions, "notional_value") * 100 > DefaultMaxExposurePct * bal
                       ELSE FALSE
      v4 == count_consecutive_losses(st.trades_today) > DefaultConsecutiveLossLimit
  IN [can_trade |-> ~(v1 \/ v2 \/ v3 \/ v4),
      reason |-> IF v4 THEN "Consecutive loss limit reached"
                 ELSE IF v3 THEN "Maximum exposure limit reached"
                 ELSE IF v2 THEN "Maximum position count reached"
                 ELSE IF v1 THEN "Session stop loss limit reached"
                 ELSE ""]

\* RiskManagementAgent._check_risk_limits: the reason of the last violated limit
check_risk_limits(st, cfg) ==
  LET bal == st.account_balance
      v1 == IF bal > 0 THEN st.session_pnl * 100 <= -st.max_session_risk_pct * bal
                       ELSE 0 <= -st.max_session_risk_pct
      v2 == Len(st.positions) >= CfgGet(cfg, "max_positions", DefaultMaxPositions)
      v3 == IF bal > 0 THEN SumField(st.positions, "notional_value") * 100 >= DefaultMaxExposurePct * bal
                       ELSE 0 >= DefaultMaxExposurePct
      v4 == count_consecutive_losses(st.trades_today) >= DefaultConsecutiveLossLimit
  IN [can_trade |-> ~(v1 \/ v2 \/ v3 \/ v4),
      reason |-> IF v4 THEN "Consecutive loss limit reached"
                 ELSE IF v3 THEN "Maximum exposure limit reached"
                 ELSE IF v2 THEN "Maximum position count reached"
                 ELSE IF v1 THEN "Session stop loss limit reached"
                 ELSE ""]

\* the instrument check of system_init's recorded result carries the specs
instrument_spec_loaded(st, outputs) ==
  /\ "system_init" \in DOMAIN outputs
  /\ outputs["system_init"].result # None
  /\ st.instrument = "GBP/USD"

\* RiskManagementAgent.validate_trade; req.risk_tenths is risk_pct_actual of
\* the position calculate_position_size gives the request, in tenths of a
\* percent, and the tolerance is 10% over risk_per_trade_pct
validate_trade(req, st, outputs, cfg) ==
  LET risk_checks == check_risk_limits(st, cfg) IN
  IF ~risk_checks.can_trade
  THEN [approved |-> FALSE, reason |-> risk_checks.reason]
  ELSE IF ~instrument_spec_loaded(st, outputs)
  THEN [approved |-> FALSE, reason |-> "Instrument specifications not loaded"]
  ELSE IF req.risk_tenths > DefaultRiskPerTradePct * 11
  THEN [approved |-> FALSE, reason |-> "Risk exceeds limit"]
  ELSE [approved |-> TRUE, reason |-> ""]

\* RiskManagementAgent._calculate_session_risk: risk_utilization_pct, whole percent
risk_utilization_pct(st) ==
  IF st.max_session_risk_pct > 0 /\ st.account_balance > 0
  THEN ((0 - Min(0, st.session_pnl)) * 10000) \div (st.max_session_risk_pct * st.account_balance)
  ELSE 0

risk_mgmt_logic(st, al, cfg) ==
  LET util   == risk_utilization_pct(st)
      checks == check_risk_limits(st, cfg)
      st1    == [st EXCEPT !.risk_utilization = util]
      al1    == IF util > RiskAlertPct
                THEN add_alert(al, "risk_mgmt", "warning", "Risk utilization at " \o ToString(util) \o "%")
                ELSE al
      al2    == IF ~checks.can_trade
                THEN add_alert(al1, "risk_mgmt", "critical", "Trading halted: " \o checks.reason)
                ELSE al1
  IN Returned(st1, al2, "success")

\* RealTimeMonitoringAgent: one alert per breached threshold
monitoring_logic(st, al) ==
  LET al1 == IF st.session_pnl_pct <= -PnlWarningPct
             THEN add_alert(al, "monitoring", "warning", "Session P&L at " \o Fmt2f(st.session_pnl_pct) \o "%")
             ELSE al
      al2 == IF st.risk_utilization >= RiskAlertPct
             THEN add_alert(al1, "monitoring", "warning", "Risk utilization at " \o ToString(st.risk_utilization) \o "%")
             ELSE al1
      al3 == IF st.system_health # "healthy"
             THEN add_alert(al2, "monitoring", "critical", "System health degraded")
             ELSE al2
  IN Returned(st, al3, "success")

\* a contingency step that sets the latch itself when it detects an emergency
contingency_logic_latches(st, al) ==
  IF st.session_pnl_pct <= -st.max_session_risk_pct \/ st.emergency_stop
  THEN Returned([st EXCEPT !.emergency_stop = TRUE,
                           !.stop_reason = Some("Contingency protocol")],
                al, "emergency_protocol_executed")
  ELSE Returned(st, al, "success")

\* ContingencyManagementAgent._detect_emergency and the protocol's status
contingency_logic(st, al) ==
  IF st.session_pnl_pct <= -st.max_session_risk_pct \/ st.emergency_stop
  THEN Returned(st, al, "emergency_protocol_executed")
  ELSE Returned(st, al, "success")

\* a position as the risk calculations read it
Position == [notional_value |-> 1, risk_amount |-> 0]

\* an entry step that books the position it opened without counting it
entry_execution_logic_books(st, al, env) ==
  IF env = "executed"
  THEN Returned([st EXCEPT !.positions = Append(st.positions, Position)], al, "executed")
  ELSE Returned(st, al, CASE env = "no_setup" -> "no_action"
                          [] env = "waiting" -> "waiting"
                          [] env = "rejected" -> "rejected"
                          [] OTHER -> "failed")

\* EntryExecutionAgent: the outcome is decided by the scanner output, the
\* trigger, the risk validation and the order call
entry_execution_logic(st, al, env) ==
  Returned(st, al, CASE env = "no_setup" -> "no_action"
                     [] env = "waiting" -> "waiting"
                     [] env = "rejected" -> "rejected"
                     [] env = "order_failed" -> "failed"
                     [] OTHER -> "executed")

trade_management_logic(st, al) ==
  Returned(st, al, IF st.positions = << >> THEN "no_action" ELSE "success")

exit_execution_logic(st, al, outputs) ==
  LET entry_status == IF "entry_execution" \in DOMAIN outputs
                      THEN outputs["entry_execution"].status ELSE "" IN
  Returned(st, al, IF entry_status \in {"waiting", "rejected"} THEN "skipped"
                   ELSE IF st.positions = << >> THEN "no_action" ELSE "success")

strength_weakness_logic(st, al) ==
  IF st.trend # Some("success")
  THEN Returned(st, al, "error")
  ELSE Returned([st EXCEPT !.strength_weakness = Some("success")], al, "success")

setup_scanner_logic(st, al) ==
  IF st.trend # Some("success") THEN Returned(st, al, "error") ELSE Returned(st, al, "success")

\* what the environment can do to each agent
NormalEnv(a) ==
  IF a = "entry_execution"
  THEN {"no_setup", "waiting", "rejected", "executed", "order_failed"}
  ELSE {"ok"}

AbnormalEnv(a) ==
  CASE a = "risk_mgmt" -> {"raise"}
    [] a = "economic_calendar" -> {"fail", "raise", "restricted"}
    [] a = "logging_audit" -> {"fail", "decision_fail", "raise"}
    [] OTHER -> {"fail", "raise"}

\* _execute_logic of agent a
execute_logic(a, st, outputs, al, cfg, env) ==
  IF env = "raise" THEN Raised(st, al)
  ELSE IF env = "fail" /\ a # "system_init" THEN Returned(st, al, "error")
  ELSE CASE a = "system_init" -> system_init_logic(st, al, env)
         [] a = "risk_mgmt" -> risk_mgmt_logic(st, al, cfg)
         [] a = "market_structure" ->
              Returned([st EXCEPT !.market_structure = Some("success")], al, "success")
         [] a = "economic_calendar" ->
              Returned(st, IF env = "restricted"
                           THEN add_alert(al, a, "warning", "Trading restricted: news")
                           ELSE al, "success")
         [] a = "trend_definition" ->
              Returned([st EXCEPT !.trend = Some("success")], al, "success")
         [] a = "strength_weakness" -> strength_weakness_logic(st, al)
         [] a = "setup_scanner" -> setup_scanner_logic(st, al)
         [] a = "entry_execution" -> entry_execution_logic(st, al, env)
         [] a = "trade_management" -> trade_management_logic(st, al)
         [] a = "exit_execution" -> exit_execution_logic(st, al, outputs)
         [] a = "monitoring" -> monitoring_logic(st, al)
         [] a = "contingency" -> contingency_logic(st, al)
         [] OTHER -> Returned(st, al, "success")

\* BaseAgent.execute: the state, agent_outputs and alerts it returns, and
\* whether the exception left it
execute(a, st, outputs, al, cfg, env) ==
  LET r == execute_logic(a, st, outputs, al, cfg, env) IN
  IF r.raised
  THEN [state |-> r.st] @@ handle_error(outputs, r.alerts, a, StepError)
  ELSE [state |-> r.st, agent_outputs |-> update_state(outputs, a, r.result),
        alerts |-> r.alerts, propagated |-> FALSE]


(* ------------------------------ behaviour ----------------------------- *)

\* uuid.uuid4()
SessionIds == {"uuid-1", "uuid-2"}

\* the configurations the orchestrator is constructed with
Configs ==
  [initial_balance      : {None},
   max_session_risk_pct : {None, Some(0)},
   instrument           : {None, Some("GBP/USD")},
   duration_hours       : {None},
   max_positions        : {None}]

\* the reasons emergency_shutdown is called with
Reasons == {"fatal error"}

Step(n, env, route) ==
  [node |-> n, env |-> env, raised |-> (env = "raise"), route |-> route,
   cycles |-> workflow_cycles]

NoStep == [node |-> "none", env |-> "", raised |-> FALSE, route |-> "", cycles |-> 0]

\* MasterOrchestrator.__init__
Constructed ==
  /\ config \in Configs
  /\ \E sid \in SessionIds : session_state = initialize_state(config, sid, 0)
  /\ state = session_state
  /\ agent_outputs = << >>
  /\ alerts = << >>
  /\ workflow_cycles = 0
  /\ node = "idle"
  /\ now = 0
  /\ escaped = FALSE
  /\ path = << >>
  /\ loopbacks = 0
  /\ last = NoStep
  /\ prev = session_state
  /\ faults = 0
  /\ traversals = 0
  /\ first = None

\* a fresh orchestrator whose methods a caller invokes
Init == Constructed /\ runner = "caller"

\* workflow.ainvoke(self.session_state): the traversal starts at the entry point
EnterGraph ==
  /\ node = "idle"
  /\ state' = session_state
  /\ node' = "system_init"
  /\ path' = << >>
  /\ loopbacks' = 0
  /\ prev' = session_state
  /\ UNCHANGED <<first, config, session_state, agent_outputs, alerts, workflow_cycles, now,
                 escaped, faults>>

\* workflow.ainvoke(self.session_state), counted
StartTraversal ==
  /\ traversals < MaxTraversals
  /\ traversals' = traversals + 1
  /\ EnterGraph

\* a caller invokes the graph
Invoke ==
  /\ runner = "caller"
  /\ StartTraversal
  /\ last' = NoStep
  /\ UNCHANGED runner

\* start_session: one traversal from the current session state
start_session == Invoke

\* process_cycle: one traversal from the current session state
process_cycle == Invoke

\* mutant: the traversal's final state is not stored
Follow_discards(target, st) ==
  /\ state' = st
  /\ node' = IF target = END THEN "idle" ELSE target
  /\ session_state' = session_state

\* the traversal follows an edge to target with state st; at END ainvoke returns
\* and the caller stores the final state in self.session_state
Follow(target, st) ==
  /\ state' = st
  /\ node' = IF target = END THEN "idle" ELSE target
  /\ session_state' = IF target = END THEN st ELSE session_state

\* an agent node with an unconditional outgoing edge
ExecuteAgent ==
  /\ node \in ChainAgents
  /\ \E env \in NormalEnv(node) \cup (IF faults < MaxFaults THEN AbnormalEnv(node) ELSE {}) :
       LET r == execute(node, state, agent_outputs, alerts, config, env) IN
       /\ agent_outputs' = r.agent_outputs
       /\ alerts' = r.alerts
       /\ escaped' = (escaped \/ r.propagated)
       /\ IF r.propagated
          THEN /\ node' = "idle"
               /\ UNCHANGED <<state, session_state>>
          ELSE Follow(Edge(node), r.state)
       /\ faults' = IF env \in NormalEnv(node) THEN faults ELSE faults + 1
       /\ last' = Step(node, env, "")
  /\ prev' = state
  /\ path' = Append(path, node)
  /\ UNCHANGED <<first, config, workflow_cycles, now, loopbacks, traversals, runner>>

\* logging_audit and the router _after_logging_route on its outgoing edges;
\* with a top, the counter stops there (the router only compares it with the
\* cycle limit, so all values above the limit behave alike)
LoggingAudit(top) ==
  /\ node = "logging_audit"
  /\ \E env \in NormalEnv(node) \cup (IF faults < MaxFaults THEN AbnormalEnv(node) ELSE {}) :
       LET r  == execute(node, state, agent_outputs, alerts, config, env)
           rt == after_logging_route(r.state, workflow_cycles) IN
       /\ agent_outputs' = r.agent_outputs
       /\ alerts' = r.alerts
       /\ escaped' = (escaped \/ r.propagated)
       /\ IF r.propagated
          THEN /\ node' = "idle"
               /\ UNCHANGED <<state, session_state, workflow_cycles, loopbacks>>
               /\ last' = Step(node, env, "")
          ELSE /\ Follow(LoggingEdges(rt.route), r.state)
               /\ workflow_cycles' = IF top = None THEN rt.cycles ELSE Min(rt.cycles, top[1])
               /\ loopbacks' = IF rt.route = "continue" THEN loopbacks + 1 ELSE loopbacks
               /\ last' = Step(node, env, rt.route)
       /\ faults' = IF env \in NormalEnv(node) THEN faults ELSE faults + 1
  /\ prev' = state
  /\ path' = Append(path, node)
  /\ UNCHANGED <<first, config, now, traversals, runner>>

ExecuteLoggingAudit == LoggingAudit(None)

\* emergency_check and the router _route_emergency on its outgoing edges
CheckEmergency ==
  /\ node = "emergency_check"
  /\ LET st == check_emergency(state)
         rt == route_emergency(st) IN
       /\ Follow(EmergencyEdges(rt), st)
       /\ last' = Step(node, "ok", rt)
  /\ prev' = state
  /\ path' = Append(path, node)
  /\ UNCHANGED <<first, config, agent_outputs, alerts, workflow_cycles, now, escaped,
                 loopbacks, faults, traversals, runner>>

\* check_phase and the router _route_by_phase on its outgoing edges
CheckPhaseTransition ==
  /\ node = "check_phase"
  /\ LET st == check_phase_transition(state, agent_outputs, config, now)
         rt == route_by_phase(st) IN
       /\ Follow(PhaseEdges(rt), st)
       /\ last' = Step(node, "ok", rt)
  /\ prev' = state
  /\ path' = Append(path, node)
  /\ UNCHANGED <<first, config, agent_outputs, alerts, workflow_cycles, now, escaped,
                 loopbacks, faults, traversals, runner>>

\* MasterOrchestrator.emergency_shutdown, called by the host between traversals
EmergencyShutdown ==
  /\ node = "idle"
  /\ runner = "caller"
  /\ \E reason \in Reasons :
       /\ session_state' = emergency_shutdown(session_state, reason)
       /\ state' = session_state'
  /\ last' = Step("emergency_shutdown", "ok", "")
  /\ prev' = session_state
  /\ UNCHANGED <<first, config, agent_outputs, alerts, workflow_cycles, node, now, escaped,
                 path, loopbacks, faults, traversals, runner>>

\* MasterOrchestrator.get_session_summary, called by the host between
\* traversals; last holds the dictionary it returned
GetSessionSummary ==
  /\ node = "idle"
  /\ runner = "caller"
  /\ last' = Step("get_session_summary", "ok", "") @@
              [summary |-> get_session_summary(session_state, alerts, now)]
  /\ UNCHANGED <<first, config, session_state, state, agent_outputs, alerts, workflow_cycles,
                 node, now, escaped, path, loopbacks, prev, faults, traversals, runner>>

\* the wall clock; it is read by check_phase and by the host between traversals
Tick ==
  /\ node \in {"idle", "check_phase"}
  /\ now < MaxTime
  /\ now' = now + 1
  /\ UNCHANGED <<first, config, session_state, state, agent_outputs, alerts, workflow_cycles,
                 node, escaped, path, loopbacks, last, prev, faults, traversals, runner>>

Next ==
  \/ start_session
  \/ process_cycle
  \/ ExecuteAgent
  \/ ExecuteLoggingAudit
  \/ CheckEmergency
  \/ CheckPhaseTransition
  \/ EmergencyShutdown
  \/ GetSessionSummary
  \/ Tick

Spec == Init /\ [][Next]_vars


(* ------------------- traversals of a given state ---------------------- *)
(* The graph and its nodes take any TradingState (the repository's tests   *)
(* build them by hand). Besides the runs of a fresh orchestrator, SpecAny  *)
(* runs one traversal, without abnormal outcomes, from each state of a     *)
(* bounded family.                                                         *)

ConfigsAny ==
  [initial_balance      : {None},
   max_session_risk_pct : {None},
   instrument           : {None},
   duration_hours       : {None, Some(1)},
   max_positions        : {None}]

\* an agent_outputs entry of a step that returned status s
Entry(s) == [status |-> s, result |-> Some([status |-> s]), error |-> None]

\* the agent_outputs dictionaries the traversals start with
OutputsAny ==
  {<< >>,
   "trend_definition" :> Entry("success"),
   "trend" :> Entry("success"),
   "session_review" :> Entry("success")}

\* the latch and its reason as a caller may have set them
LatchAny == {<<FALSE, None>>, <<TRUE, Some("manual stop")>>}

\* a closed trade as the risk calculations read it
Trade(pnl) == [pnl |-> pnl]

\* the open positions, counted as the orchestrator's state counts them, and
\* the trades closed so far
BooksAny ==
  {[positions |-> << >>, trades_today |-> << >>],
   [positions |-> <<Position>>, trades_today |-> <<Trade(-1), Trade(1)>>]}

Given ==
  /\ config \in ConfigsAny
  /\ \E sid \in SessionIds, ph \in Phases, pnl \in {-3, 0},
        health \in {"healthy", "critical"}, latch \in LatchAny,
        book \in BooksAny :
       session_state =
         [initialize_state(config, sid, 0) EXCEPT
            !.phase = ph, !.session_pnl = pnl, !.session_pnl_pct = pnl,
            !.system_health = health,
            !.positions = book.positions,
            !.open_positions_count = Len(book.positions),
            !.trades_today = book.trades_today,
            !.emergency_stop = latch[1], !.stop_reason = latch[2]]
  /\ state = session_state
  /\ agent_outputs \in OutputsAny
  /\ alerts = << >>
  /\ workflow_cycles = 0
  /\ node = "idle"
  /\ now = 0
  /\ escaped = FALSE
  /\ path = << >>
  /\ loopbacks = 0
  /\ last = NoStep
  /\ prev = session_state
  /\ faults = MaxFaults
  /\ traversals = MaxTraversals - 1
  /\ first = None

InitGiven == Given /\ runner = "caller"

InitAny == Init \/ InitGiven

SpecAny == InitAny /\ [][Next]_vars


(* ----------------------------- host loops ----------------------------- *)
(* MasterOrchestrator.run, and YTCTradingSystem.start followed by          *)
(* YTCTradingSystem.run, drive the orchestrator instead of a caller.       *)

RunLoops == {"orchestrator.run", "main.run"}

BoolStr(b) == IF b THEN "true" ELSE "false"

\* YTCTradingSystem.start: start_session, then the run loop
MainStart ==
  /\ runner = "main.start"
  /\ StartTraversal
  /\ last' = NoStep
  /\ runner' = "main.run"

\* one pass of a run loop whose is_active test succeeds: process_cycle
RunCycle ==
  /\ runner \in RunLoops
  /\ is_active(session_state, config, now)
  /\ StartTraversal
  /\ last' = Step("is_active", "ok", BoolStr(TRUE))
  /\ UNCHANGED runner

\* one pass of a run loop whose is_active test fails: the loop ends
RunExit ==
  /\ runner \in RunLoops
  /\ node = "idle"
  /\ ~is_active(session_state, config, now)
  /\ runner' = "stopped"
  /\ last' = Step("is_active", "ok", BoolStr(FALSE))
  /\ prev' = session_state
  /\ UNCHANGED <<first, config, session_state, state, agent_outputs, alerts, workflow_cycles,
                 node, now, escaped, path, loopbacks, faults, traversals>>

\* an exception leaves workflow.ainvoke: the assignment of the result is not
\* reached. MasterOrchestrator.run catches it and calls emergency_shutdown;
\* YTCTradingSystem.start and .run log it and raise it again, and main exits.
EngineFault ==
  /\ node # "idle"
  /\ faults < MaxFaults
  /\ runner \in RunLoops
  /\ faults' = faults + 1
  /\ escaped' = TRUE
  /\ node' = "idle"
  /\ session_state' = IF runner = "orchestrator.run"
                      THEN emergency_shutdown(session_state, StepError.msg)
                      ELSE session_state
  /\ runner' = "stopped"
  /\ last' = Step("ainvoke", "fault", "")
  /\ prev' = session_state
  /\ UNCHANGED <<first, config, state, agent_outputs, alerts, workflow_cycles, now, path,
                 loopbacks, traversals>>

NextRun ==
  \/ MainStart
  \/ RunCycle
  \/ RunExit
  \/ EngineFault
  \/ ExecuteAgent
  \/ ExecuteLoggingAudit
  \/ CheckEmergency
  \/ CheckPhaseTransition
  \/ Tick

\* a fresh orchestrator, or one holding a given state, under a host loop
InitRun ==
  /\ (Constructed \/ Given)
  /\ runner \in {"orchestrator.run", "main.start"}

SpecRun == InitRun /\ [][NextRun]_vars


(* ----------------------------- risk checks ---------------------------- *)
(* _check_risk_limits and validate_trade are functions of the state they   *)
(* are given: SpecRisk applies them to the states of a bounded family.     *)

\* a position without a notional value, as the unit tests build them
Unsized == [notional_value |-> 0, risk_amount |-> 1]

TradesAny == UNION {[1..n -> {Trade(-1), Trade(1)}] : n \in 0..MaxTrades}

ConfigsRisk ==
  [initial_balance      : {None},
   max_session_risk_pct : {None},
   instrument           : {None, Some("GBP/USD")},
   duration_hours       : {None},
   max_positions        : {None, Some(1)}]

\* the trade requests, by the risk their sized position carries
TradeRequests == {[risk_tenths |-> 10], [risk_tenths |-> 12]}

InitRisk ==
  /\ config \in ConfigsRisk
  /\ \E sid \in {"uuid-1"}, pnl \in {-3, -2, 0}, n \in 0..DefaultMaxPositions,
        trades \in TradesAny :
       session_state =
         [initialize_state(config, sid, 0) EXCEPT
            !.session_pnl = pnl, !.session_pnl_pct = pnl,
            !.positions = [i \in 1..n |-> Unsized],
            !.open_positions_count = n,
            !.trades_today = trades]
  /\ state = session_state
  /\ agent_outputs \in {<< >>, "system_init" :> Entry("success")}
  /\ alerts = << >>
  /\ workflow_cycles = 0
  /\ node = "idle"
  /\ now = 0
  /\ escaped = FALSE
  /\ path = << >>
  /\ loopbacks = 0
  /\ last = NoStep
  /\ prev = session_state
  /\ faults = 0
  /\ traversals = 0
  /\ first = None
  /\ runner = "caller"

\* _calculate_session_risk and _check_risk_limits on the state
CheckRiskLimits ==
  /\ last' = Step("check_risk_limits", "ok", "") @@
              [checks |-> check_risk_limits(session_state, config)]
  /\ UNCHANGED <<first, config, session_state, state, agent_outputs, alerts,
                 workflow_cycles, node, now, escaped, path, loopbacks, prev, faults,
                 traversals, runner>>

\* validate_trade on a trade request and the state
ValidateTrade ==
  /\ \E req \in TradeRequests :
       last' = Step("validate_trade", "ok", "") @@
               [request |-> req,
                validation |-> validate_trade(req, session_state, agent_outputs, config)]
  /\ UNCHANGED <<first, config, session_state, state, agent_outputs, alerts,
                 workflow_cycles, node, now, escaped, path, loopbacks, prev, faults,
                 traversals, runner>>

NextRisk ==
  \/ CheckRiskLimits
  \/ ValidateTrade

SpecRisk == InitRisk /\ [][NextRisk]_vars


(* ------------------------- sessions without end ---------------------- *)
(* A caller that keeps calling process_cycle, or a run loop, on a fresh     *)
(* orchestrator whose steps all succeed, for as many traversals as it      *)
(* takes. The instrument is the one system_init knows, so that no alert is *)
(* appended; the cycle counter stops above the limit and the traversals    *)
(* are counted up to MaxTraversals only; the clock stops at MaxTime.       *)

ConfigsLive ==
  [initial_balance      : {None},
   max_session_risk_pct : {None},
   instrument           : {Some("GBP/USD")},
   duration_hours       : {None, Some(1)},
   max_positions        : {None}]

InitLive ==
  /\ config \in ConfigsLive
  /\ session_state = initialize_state(config, "uuid-1", 0)
  /\ state = session_state
  /\ agent_outputs = << >>
  /\ alerts = << >>
  /\ workflow_cycles = 0
  /\ node = "idle"
  /\ now = 0
  /\ escaped = FALSE
  /\ path = << >>
  /\ loopbacks = 0
  /\ last = NoStep
  /\ prev = session_state
  /\ faults = MaxFaults
  /\ traversals = 0
  /\ first = None
  /\ runner \in {"caller", "orchestrator.run", "main.start"}

\* workflow.ainvoke(self.session_state), as often as it is called
EnterGraphAgain ==
  /\ traversals' = Min(traversals + 1, MaxTraversals)
  /\ EnterGraph

\* start_session, then process_cycle again and again
CallCycle ==
  /\ runner = "caller"
  /\ EnterGraphAgain
  /\ last' = NoStep
  /\ UNCHANGED runner

\* YTCTradingSystem.start: start_session, then the run loop
StartLoop ==
  /\ runner = "main.start"
  /\ EnterGraphAgain
  /\ last' = NoStep
  /\ runner' = "main.run"

\* one pass of a run loop whose is_active test succeeds: process_cycle
LoopCycle ==
  /\ runner \in RunLoops
  /\ is_active(session_state, config, now)
  /\ EnterGraphAgain
  /\ last' = Step("is_active", "ok", BoolStr(TRUE))
  /\ UNCHANGED runner

NextLive ==
  \/ CallCycle
  \/ StartLoop
  \/ LoopCycle
  \/ RunExit
  \/ ExecuteAgent
  \/ LoggingAudit(Some(CycleLimit + 1))
  \/ CheckEmergency
  \/ CheckPhaseTransition
  \/ Tick

\* the caller and the loops go on, every started traversal is run to its
\* end, and the wall clock advances however busy the process is
SpecLive ==
  /\ InitLive
  /\ [][NextLive]_vars
  /\ WF_vars(NextLive)
  /\ SF_vars(Tick)


(* -------------------------- two orchestrators ------------------------- *)
(* A process constructs an orchestrator and starts its session, then       *)
(* constructs a second one from the same configuration and starts that.    *)

\* start_session of an orchestrator that has run nothing yet
StartFreshSession ==
  /\ traversals = 0
  /\ start_session

\* MasterOrchestrator.__init__ of the second orchestrator: a state of its
\* own, with new lists and a new uuid; first keeps what the first one holds
Construct ==
  /\ node = "idle"
  /\ traversals = 1
  /\ first = None
  /\ first' = Some([session_id      |-> session_state.session_id,
                    phase           |-> session_state.phase,
                    account_balance |-> session_state.account_balance,
                    positions       |-> session_state.positions,
                    alerts          |-> alerts])
  /\ \E sid \in SessionIds \ {session_state.session_id} :
       session_state' = initialize_state(config, sid, now)
  /\ state' = session_state'
  /\ prev' = session_state'
  /\ agent_outputs' = << >>
  /\ alerts' = << >>
  /\ workflow_cycles' = 0
  /\ escaped' = FALSE
  /\ path' = << >>
  /\ loopbacks' = 0
  /\ last' = NoStep
  /\ traversals' = 0
  /\ UNCHANGED <<config, node, now, faults, runner>>

NextPair ==
  \/ StartFreshSession
  \/ ExecuteAgent
  \/ ExecuteLoggingAudit
  \/ CheckEmergency
  \/ CheckPhaseTransition
  \/ Construct
  \/ Tick

SpecPair == Init /\ [][NextPair]_vars


(* ------------------------------ properties ---------------------------- *)

InPath(n) == \E i \in 1..Len(path) : path[i] = n

Visits(n) == Cardinality({i \in 1..Len(path) : path[i] = n})

Max(a, b) == IF a > b THEN a ELSE b

\* C1: an exception in a step's logic does not leave execute: the step's
\* agent_outputs entry has status "error", no exception leaves the traversal,
\* and the traversal goes on along the step's outgoing edge.
C1_StepFaultContained ==
  /\ ~escaped
  /\ last.raised =>
       /\ last.node \in DOMAIN agent_outputs
       /\ agent_outputs[last.node].status = "error"
       /\ last.node \in ChainAgents => node = Edge(last.node)
       /\ last.node = "logging_audit" => last.route \in {"continue", "end"}

C1_Witness == last.raised /\ last.node = "risk_mgmt" /\ node = "market_structure"

\* C2: emergency_stop is a one-way latch: no operation takes it from true to
\* false, in the state flowing through the graph or in the session state.
C2_LatchMonotonic ==
  [][/\ state.emergency_stop => state'.emergency_stop
     /\ session_state.emergency_stop => session_state'.emergency_stop]_vars

\* a traversal runs its steps on a session whose latch was set before it started
C2_Witness == session_state.emergency_stop /\ node = "contingency"

ForwardPairs ==
  {<<"pre_market", "session_open">>, <<"session_open", "active_trading">>,
   <<"active_trading", "post_market">>, <<"post_market", "shutdown">>}

PhaseStepOK(p, q, latch) ==
  \/ q = p
  \/ <<p, q>> \in ForwardPairs
  \/ q = "shutdown" /\ latch

\* C3: every change of phase is one step forward along pre_market,
\* session_open, active_trading, post_market, shutdown, or a jump to shutdown
\* with emergency_stop set; phase never moves back and never leaves shutdown.
\* (Between traversals state equals session_state.)
C3_PhaseTransitions ==
  [][/\ PhaseStepOK(state.phase, state'.phase, state'.emergency_stop)
     /\ node' = "idle" /\ ~escaped' => session_state' = state']_vars

C3_Witness ==
  last.node = "check_phase" /\ prev.phase = "active_trading" /\ state.phase = "post_market"

\* the traversal was ended by the continue/end router although phase is not shutdown
EndedByLimit ==
  last.node = "logging_audit" /\ last.route = "end" /\ state.phase # "shutdown"

\* C4 as stated: a traversal that the cycle limit ends has taken exactly 5 loop-backs.
C4_FiveLoopbacks == EndedByLimit => loopbacks = CycleLimit

\* C4 amended: a traversal never takes more than 5 loop-backs and no exception
\* leaves it; when the cycle limit ends it, it has taken 5 loop-backs less the
\* logging visits of earlier traversals (the counter is not reset), which is
\* exactly 5 in the first traversal of an orchestrator.
C4_CycleLimit ==
  /\ loopbacks <= CycleLimit
  /\ ~escaped
  /\ EndedByLimit =>
       /\ node = "idle"
       /\ loopbacks =
            Max(0, CycleLimit - (workflow_cycles - Visits("logging_audit")))

C4_Witness == EndedByLimit /\ loopbacks = CycleLimit

LossLimitHit(st) == st.session_pnl_pct <= -st.max_session_risk_pct

\* C5 as stated: after emergency_check on a state at or beyond the loss limit
\* the latch is set and stop_reason names the loss limit, whatever else holds.
C5_LossLimitReason ==
  (last.node = "emergency_check" /\ LossLimitHit(prev)) =>
     /\ state.emergency_stop
     /\ state.stop_reason = Some(LossLimitReason(prev.session_pnl_pct))

\* C5 amended: after emergency_check on a state at or beyond the loss limit
\* (equality included) the latch is set and stop_reason is a non-empty text;
\* it names the loss limit unless system_health is critical, and then it is
\* the health reason.
C5_LossLimitStops ==
  (last.node = "emergency_check" /\ LossLimitHit(prev)) =>
     /\ state.emergency_stop
     /\ state.stop_reason # None
     /\ state.stop_reason[1] # ""
     /\ state.stop_reason =
          IF prev.system_health = "critical" THEN Some(HealthReason)
          ELSE Some(LossLimitReason(prev.session_pnl_pct))

C5_Witness ==
  /\ last.node = "emergency_check"
  /\ prev.session_pnl_pct = -prev.max_session_risk_pct
  /\ prev.max_session_risk_pct = DefaultMaxSessionRiskPct
  /\ ~prev.emergency_stop
  /\ state.emergency_stop

\* C6: the emergency router answers "stop" exactly when the latch is set; on
\* "stop" the traversal is over, so while a traversal is past emergency_check
\* the latch is not set and no later node runs with it.
C6_EmergencyRoute ==
  /\ last.node = "emergency_check" =>
       /\ last.route = (IF state.emergency_stop THEN "stop" ELSE "continue")
       /\ last.route = "stop" => node = "idle" /\ session_state = state
       /\ last.route = "continue" => node = "check_phase"
  /\ (node # "idle" /\ InPath("emergency_check")) => ~state.emergency_stop
  /\ (InPath("emergency_check") /\ path[Len(path)] # "emergency_check") =>
       \/ ~state.emergency_stop
       \/ node = "idle" /\ state.stop_reason \in {Some(r) : r \in Reasons}

C6_Witness ==
  last.node = "emergency_check" /\ last.route = "stop" /\ node = "idle"

\* C7 (the claim): check_phase on a session_open state whose trend_definition
\* step has recorded a successful output moves phase to active_trading.
C7_TrendOutputAdvances ==
  (/\ last.node = "check_phase"
   /\ prev.phase = "session_open"
   /\ "trend_definition" \in DOMAIN agent_outputs
   /\ agent_outputs["trend_definition"].status = "success")
  => state.phase = "active_trading"

SessionHours == CfgGet(config, "duration_hours", DefaultSessionHours)

\* C8: check_phase changes nothing but phase; it leaves pre_market only when
\* the market-open check succeeds, active_trading only for post_market and only
\* when the time since start_time exceeds the session duration, post_market
\* only for shutdown and only with a session_review output; in shutdown it
\* changes nothing.
C8_PhaseGuards ==
  last.node = "check_phase" =>
    /\ [state EXCEPT !.phase = prev.phase] = prev
    /\ (prev.phase = "pre_market" /\ state.phase # "pre_market") =>
         state.phase = "session_open" /\ is_market_open
    /\ (prev.phase = "active_trading" /\ state.phase # "active_trading") =>
         state.phase = "post_market" /\ now - prev.start_time > SessionHours
    /\ (prev.phase = "post_market" /\ state.phase # "post_market") =>
         state.phase = "shutdown" /\ "session_review" \in DOMAIN agent_outputs
    /\ prev.phase = "shutdown" => state = prev

C8_Witness ==
  /\ last.node = "check_phase"
  /\ prev.phase = "active_trading"
  /\ state.phase = "post_market"
  /\ now - prev.start_time = SessionHours + 1

RouteOfPhase(ph) ==
  CASE ph = "pre_market" -> "logging_audit"
    [] ph = "session_open" -> "trend_definition"
    [] ph = "active_trading" -> "monitoring"
    [] ph = "post_market" -> "session_review"
    [] ph = "shutdown" -> END

\* C9: the phase router sends pre_market to logging_audit, session_open to
\* trend_definition, active_trading to monitoring, post_market to
\* session_review and shutdown to END, for every value of the other fields and
\* of the cycle counter; after check_phase the traversal is at that node.
C9_PhaseRoute ==
  /\ \A ph \in Phases :
       PhaseEdges(route_by_phase([state EXCEPT !.phase = ph])) = RouteOfPhase(ph)
  /\ last.node = "check_phase" =>
       /\ last.route = state.phase
       /\ node = (IF state.phase = "shutdown" THEN "idle" ELSE RouteOfPhase(state.phase))

C9_Witness ==
  last.node = "check_phase" /\ state.phase = "active_trading" /\ node = "monitoring"
  /\ workflow_cycles > 0

\* C10: after logging_audit the router has incremented the cycle counter by
\* one and answers "end" exactly when phase is shutdown or the counter exceeds
\* 5; otherwise it answers "continue" and the traversal is at check_phase.
C10_ContinueEndRoute ==
  /\ \A ph \in Phases, c \in 0..(CycleLimit + 1) :
       after_logging_route([state EXCEPT !.phase = ph], c) =
         [cycles |-> c + 1,
          route  |-> IF ph = "shutdown" \/ c + 1 > 5 THEN "end" ELSE "continue"]
  /\ last.node = "logging_audit" =>
       /\ workflow_cycles = last.cycles + 1
       /\ last.route = "end" <=> (state.phase = "shutdown" \/ workflow_cycles > 5)
       /\ last.route = "continue" <=> ~(state.phase = "shutdown" \/ workflow_cycles > 5)
       /\ last.route = "continue" => node = "check_phase"
       /\ last.route = "end" => node = "idle"

C10_Witness ==
  last.node = "logging_audit" /\ last.route = "continue" /\ workflow_cycles = CycleLimit
  /\ node = "check_phase"

InitChain ==
  <<"system_init", "risk_mgmt", "market_structure", "economic_calendar",
    "contingency", "emergency_check">>

PhaseChains ==
  {<<"trend_definition", "strength_weakness">>,
   <<"monitoring", "setup_scanner", "entry_execution", "trade_management",
     "exit_execution">>,
   <<"session_review", "performance_analytics", "learning_optimization",
     "next_session_prep">>}

LastExecuted == path[Len(path)]

\* the node executed last extends path in the order of chain c: it follows its
\* predecessor in c and nothing else, and c's steps are followed by their
\* successor in c. (Every prefix of path was the path of an earlier state, so
\* holding in every state this orders the whole path.)
InChainOrder(c) ==
  \A k \in 1..(Len(c) - 1) :
    /\ (Len(path) > 1 /\ path[Len(path) - 1] = c[k]) => LastExecuted = c[k + 1]
    /\ (Len(path) > 0 /\ LastExecuted = c[k + 1]) =>
         (Len(path) > 1 /\ path[Len(path) - 1] = c[k])

C12_LoggingClosesChain ==
  /\ PhaseEdges("pre_market") = "logging_audit"
  /\ (node # "idle" /\ Len(path) > 0 /\
      LastExecuted \in {"strength_weakness", "exit_execution", "next_session_prep"})
       => node = "logging_audit"
  /\ (Len(path) > 0 /\ LastExecuted = "check_phase") =>
       /\ Len(path) > 1
       /\ path[Len(path) - 1] = (IF Len(path) = Len(InitChain) + 1 THEN "emergency_check"
                                 ELSE "logging_audit")
  /\ (Len(path) > 0 /\ LastExecuted = "logging_audit") =>
       /\ Len(path) > 1
       /\ path[Len(path) - 1] \in {"check_phase", "strength_weakness",
                                   "exit_execution", "next_session_prep"}
  /\ (last.node = "logging_audit" /\ ~escaped) =>
       /\ last.route \in {"continue", "end"}
       /\ LastExecuted = "logging_audit"
       /\ "logging_audit" \in DOMAIN agent_outputs
  /\ (node = "idle" /\ ~escaped /\ Len(path) > 0 /\ LastExecuted \notin ControlNodes)
       => LastExecuted = "logging_audit"

C12_Witness ==
  node = "idle" /\ InPath("exit_execution") /\ LastExecuted = "logging_audit"

\* the nodes the engine schedules after node n has returned and, where n has
\* conditional edges, its router has answered r
Triggered(n, r) ==
  {e[2] : e \in {d \in Edges : d[1] = n}}
    \cup (IF n = "emergency_check" /\ r \in {"continue", "stop"}
          THEN {EmergencyEdges(r)} ELSE {})
    \cup (IF n = "check_phase" /\ r \in Phases THEN {PhaseEdges(r)} ELSE {})
    \cup (IF n = "logging_audit" /\ r \in {"continue", "end"}
          THEN {LoggingEdges(r)} ELSE {})

\* C13: the graph has no fan-out: no node has two unconditional edges, the
\* nodes with a router have none, and a router's answer selects one target; so
\* a traversal has one node to execute at a time: after each node the set of
\* scheduled nodes is the single next node (or END).
C13_NoFanOut ==
  /\ Cardinality({e[1] : e \in Edges}) = Cardinality(Edges)
  /\ {e[1] : e \in Edges} = AgentIds \ {"logging_audit"}
  /\ {e[2] : e \in Edges} \subseteq Nodes
  /\ (last.node \in Nodes /\ ~escaped) =>
       Triggered(last.node, last.route) = {IF node = "idle" THEN END ELSE node}

C13_Witness == last.node = "check_phase" /\ node = "trend_definition"

\* C15: emergency_shutdown(reason), in any phase, sets emergency_stop,
\* stop_reason = reason and phase = shutdown in the session state and changes
\* no other field of it, nor agent_outputs, nor alerts; no node of the graph
\* runs and the cycle counter keeps its value.
C15_EmergencyShutdownFrame ==
  [][(last'.node = "emergency_shutdown" /\ (last' # last \/ prev' # prev)) =>
       /\ \E reason \in Reasons :
            session_state' = [session_state EXCEPT !.emergency_stop = TRUE,
                                                   !.stop_reason = Some(reason),
                                                   !.phase = "shutdown"]
       /\ \A f \in DOMAIN session_state \ {"emergency_stop", "stop_reason", "phase"} :
            session_state'[f] = session_state[f]
       /\ DOMAIN session_state' = DOMAIN session_state
       /\ agent_outputs' = agent_outputs
       /\ alerts' = alerts
       /\ node = "idle" /\ node' = "idle"
       /\ path' = path
       /\ workflow_cycles' = workflow_cycles]_vars

C15_Witness ==
  /\ last.node = "emergency_shutdown"
  /\ prev.phase = "active_trading"
  /\ ~prev.emergency_stop
  /\ session_state.phase = "shutdown"
  /\ session_state.stop_reason = Some("fatal error")
  /\ Len(path) > 0

\* C16: process_cycle runs one traversal: it starts at the entry point from
\* the current session state, the session state keeps its value while the
\* traversal runs, and when the traversal ends the session state is the
\* traversal's final state; no second traversal starts before that.
C16_ProcessCycle ==
  [][/\ (node = "idle" /\ node' # "idle") =>
          /\ node' = "system_init"
          /\ state' = session_state
          /\ session_state' = session_state
          /\ traversals' = traversals + 1
          /\ path' = << >>
     /\ (node # "idle" /\ node' # "idle") =>
          /\ session_state' = session_state
          /\ traversals' = traversals
          /\ path' \in {path, Append(path, node)}
     /\ (node # "idle" /\ node' = "idle" /\ ~escaped') =>
          /\ session_state' = state'
          /\ traversals' = traversals
          /\ path' = Append(path, node)]_vars

C16_Witness ==
  /\ node = "idle"
  /\ traversals = 2
  /\ last.node = "logging_audit"
  /\ session_state = state
  /\ session_state.market_structure # None

MaxHours == CfgGet(config, "duration_hours", DefaultMaxHours)

\* C14: is_active answers false when emergency_stop is set, or the time since
\* start_time exceeds the configured maximum duration, or phase is shutdown,
\* and true exactly when none of the three holds; the run loop starts a
\* traversal on true and ends on false, and the test itself changes neither
\* the session state nor agent_outputs nor alerts.
C14_IsActive ==
  [][(last'.node = "is_active" /\ (node' # node \/ runner' # runner)) =>
       /\ last'.route \in {"true", "false"}
       /\ last'.route = "false" <=>
            \/ session_state.emergency_stop
            \/ now - session_state.start_time > MaxHours
            \/ session_state.phase = "shutdown"
       /\ last'.route = "true" => node' = "system_init" /\ state' = session_state
       /\ last'.route = "false" => node' = "idle" /\ runner' = "stopped"
       /\ session_state' = session_state
       /\ agent_outputs' = agent_outputs
       /\ alerts' = alerts]_vars

C14_Witness ==
  /\ last.node = "is_active"
  /\ last.route = "false"
  /\ ~session_state.emergency_stop
  /\ session_state.phase = "session_open"
  /\ now - session_state.start_time > MaxHours

\* C17 (the claim): after an exception has left a graph traversal the host
\* loop has called emergency_shutdown and ended: emergency_stop is set,
\* stop_reason is set, phase is shutdown and no traversal runs or starts.
C17_EngineFaultShutsDown ==
  escaped =>
    /\ session_state.emergency_stop
    /\ session_state.stop_reason # None
    /\ session_state.phase = "shutdown"
    /\ node = "idle"
    /\ runner = "stopped"

\* an agent node executes in this step
AgentStep == node \in AgentIds /\ path' = Append(path, node)

FailureMessage(a, msg) == "Agent " \o a \o " failed: " \o msg

IsFailureAlert(al) == \E a \in AgentIds : al.message = FailureMessage(a, StepError.msg)

\* C18: a step execution whose logic raises appends exactly one alert, of
\* severity critical, naming the step and carrying the error message, and
\* stores the step's agent_outputs entry with status error and the error's
\* message and type; an execution whose logic returns, be it a result whose
\* status the step itself set to error, appends no such alert.
C18_FailureRecorded ==
  [][AgentStep =>
       IF last'.raised
       THEN /\ Len(alerts') = Len(alerts) + 1
            /\ SubSeq(alerts', 1, Len(alerts)) = alerts
            /\ alerts'[Len(alerts')].severity = "critical"
            /\ alerts'[Len(alerts')].message = FailureMessage(node, StepError.msg)
            /\ node \in DOMAIN agent_outputs'
            /\ agent_outputs'[node].status = "error"
            /\ agent_outputs'[node].error # None
            /\ agent_outputs'[node].error[1].error = StepError.msg
            /\ agent_outputs'[node].error[1].error_type = StepError.type
       ELSE /\ Len(alerts') >= Len(alerts)
            /\ \A i \in (Len(alerts) + 1)..Len(alerts') : ~IsFailureAlert(alerts'[i])]_vars

C18_Witness ==
  /\ last.raised
  /\ last.node = "system_init"
  /\ Len(alerts) = 1
  /\ alerts[1].severity = "critical"

\* C19: agent_outputs only gains or overwrites keys: an agent step writes its
\* own key and leaves every other entry as it was, no other operation changes
\* the dictionary, and the set of keys never shrinks, across traversals too.
C19_OutputsByKey ==
  [][/\ DOMAIN agent_outputs \subseteq DOMAIN agent_outputs'
     /\ AgentStep =>
          /\ DOMAIN agent_outputs' = DOMAIN agent_outputs \cup {node}
          /\ \A k \in DOMAIN agent_outputs \ {node} : agent_outputs'[k] = agent_outputs[k]
     /\ ~AgentStep => agent_outputs' = agent_outputs]_vars

C19_Witness ==
  /\ traversals = 2
  /\ last.node = "system_init"
  /\ "logging_audit" \in DOMAIN agent_outputs
  /\ "strength_weakness" \in DOMAIN agent_outputs

\* C20 (the claim): every alert of the list carries an agent_id beside its
\* severity and message, whichever operation appended it, and the list only
\* grows at its end.
C20_AlertFields ==
  \A i \in 1..Len(alerts) :
    /\ alerts[i].agent_id # None
    /\ alerts[i].severity \in {"info", "warning", "critical"}
    /\ alerts[i].message # ""

\* the alerts list only grows at its end
AlertsAppendOnly ==
  [][Len(alerts') >= Len(alerts) /\ SubSeq(alerts', 1, Len(alerts)) = alerts]_vars


(* ------------------------- the session's state ------------------------ *)

\* C21: in every state the open-position count is the length of the list of
\* positions, in the session's state and in the state a traversal carries,
\* and no step changes the list or the count without the other.
C21_PositionsCounted ==
  /\ [](/\ state.open_positions_count = Len(state.positions)
        /\ session_state.open_positions_count = Len(session_state.positions))
  /\ [][/\ (state'.positions # state.positions) <=>
             (state'.open_positions_count # state.open_positions_count)
        /\ (session_state'.positions # session_state.positions) <=>
             (session_state'.open_positions_count # session_state.open_positions_count)]_vars

C21_Witness ==
  /\ last.node = "entry_execution"
  /\ last.env = "executed"
  /\ state.open_positions_count = 1
  /\ state.positions = <<Position>>

\* C22: the session id is the one the orchestrator was constructed with: no
\* step of a traversal, succeeding or failing, no control node, no start of
\* a traversal and no emergency_shutdown changes it, in the session's state
\* or in the state the traversal carries.
C22_SessionIdFixed ==
  /\ [](state.session_id = session_state.session_id)
  /\ [][/\ state'.session_id = state.session_id
        /\ session_state'.session_id = session_state.session_id]_vars

C22_Witness ==
  /\ session_state.session_id = "uuid-2"
  /\ session_state.emergency_stop
  /\ session_state.stop_reason = Some("fatal error")
  /\ traversals = 2
  /\ \E a \in DOMAIN agent_outputs : agent_outputs[a].status = "error"

\* C23: the latch and its reason are set together: in every state, of the
\* session and of a traversal, emergency_stop is true exactly when
\* stop_reason is not null, so the reason is null for as long as the latch
\* has not been set, and a step that sets the latch sets the reason with it.
C23_ReasonWithLatch ==
  /\ [](/\ state.emergency_stop <=> state.stop_reason # None
        /\ session_state.emergency_stop <=> session_state.stop_reason # None)
  /\ [][(state'.emergency_stop /\ ~state.emergency_stop) =>
           (state.stop_reason = None /\ state'.stop_reason # None)]_vars

C23_Witness ==
  /\ last.node = "emergency_check"
  /\ ~prev.emergency_stop
  /\ prev.stop_reason = None
  /\ state.emergency_stop
  /\ state.stop_reason = Some(LossLimitReason(-3))

\* the steps that assign each field of the TradingState in their logic
Writers(f) ==
  CASE f = "market_structure" -> {"market_structure"}
    [] f = "trend" -> {"trend_definition"}
    [] f = "strength_weakness" -> {"strength_weakness"}
    [] f \in {"account_balance", "system_health"} -> {"system_init"}
    [] f = "risk_utilization" -> {"risk_mgmt"}
    [] OTHER -> {}

PersistenceFailures == {"fail", "decision_fail"}

PersistenceFailureStep ==
  /\ node = "logging_audit"
  /\ path' = Append(path, node)
  /\ last'.env \in PersistenceFailures

\* a persistence failure blocks and reverses nothing: the router of
\* logging_audit is consulted and followed, no exception leaves the graph, the
\* state's fields, the alerts and every other step's entry are as they were
PersistenceFailureContained ==
  [][PersistenceFailureStep =>
       /\ ~escaped'
       /\ last'.route \in {"continue", "end"}
       /\ node' = (IF last'.route = "continue" THEN "check_phase" ELSE "idle")
       /\ state' = state
       /\ SubSeq(alerts', 1, Len(alerts)) = alerts
       /\ \A k \in DOMAIN agent_outputs \ {"logging_audit"} :
            k \in DOMAIN agent_outputs' /\ agent_outputs'[k] = agent_outputs[k]]_vars

\* C25 (the claim): a persistence failure of the logging/audit step appends
\* an alert to the state's alerts, and it blocks and reverses nothing: the
\* traversal goes on to the continue/end router and the updates of the
\* earlier steps are still there.
C25_PersistenceFailureAlerted ==
  [][PersistenceFailureStep =>
       /\ Len(alerts') = Len(alerts) + 1
       /\ SubSeq(alerts', 1, Len(alerts)) = alerts
       /\ ~escaped'
       /\ last'.route \in {"continue", "end"}
       /\ state' = state
       /\ \A k \in DOMAIN agent_outputs \ {"logging_audit"} :
            k \in DOMAIN agent_outputs' /\ agent_outputs'[k] = agent_outputs[k]]_vars

\* C26: get_session_summary changes nothing of the session's state, the
\* traversal's state, the outputs, the alerts or the cycle counter, and the
\* dictionary it returns has the stored session_id and phase, the number of
\* alerts, the number of trades of the day, the number of open positions and
\* a duration that is not negative.
C26_SummaryReadOnly ==
  /\ [](last.node = "get_session_summary" =>
          /\ last.summary.session_id = session_state.session_id
          /\ last.summary.phase = session_state.phase
          /\ last.summary.alerts = Len(alerts)
          /\ last.summary.trades = Len(session_state.trades_today)
          /\ last.summary.positions = Len(session_state.positions)
          /\ last.summary.duration >= 0)
  /\ [][last'.node = "get_session_summary" =>
          UNCHANGED <<config, session_state, state, agent_outputs, alerts,
                      workflow_cycles, node>>]_vars

C26_Witness ==
  /\ last.node = "get_session_summary"
  /\ last.summary.phase = "active_trading"
  /\ last.summary.trades = 2
  /\ last.summary.positions = 1
  /\ last.summary.duration > 0
  /\ path # << >>

\* both orchestrators have finished start_session, and nothing went wrong
BothStarted ==
  /\ first # None
  /\ node = "idle"
  /\ traversals = 1
  /\ faults = 0

\* what two orchestrators of one configuration share after start_session,
\* and what they do not
FreshSessionsAgree ==
  BothStarted =>
    /\ first[1].session_id # session_state.session_id
    /\ first[1].phase = session_state.phase
    /\ first[1].account_balance = session_state.account_balance
    /\ first[1].positions = << >> /\ session_state.positions = << >>
    /\ first[1].alerts = alerts
    /\ (config.instrument = Some("GBP/USD") /\ session_state.max_session_risk_pct > 0)
         => alerts = << >>

\* C27 (the claim): start_session on two fresh orchestrators of one
\* configuration gives two different session ids, the same phase, the same
\* account balance, and no position and no alert in either.
C27_FreshSessionsAlike ==
  BothStarted =>
    /\ first[1].session_id # session_state.session_id
    /\ first[1].phase = session_state.phase
    /\ first[1].account_balance = session_state.account_balance
    /\ first[1].positions = << >> /\ session_state.positions = << >>
    /\ first[1].alerts = << >> /\ alerts = << >>

\* the session loss, in percent of the balance, has reached the limit
SessionLossReached(st) ==
  st.account_balance > 0 /\ (0 - st.session_pnl) * 100 >= st.max_session_risk_pct * st.account_balance

MaxPositionsReached(st, cfg) ==
  Len(st.positions) >= CfgGet(cfg, "max_positions", DefaultMaxPositions)

\* the last trades, as many as the limit, all lost
LossRunReached(st) ==
  /\ Len(st.trades_today) >= DefaultConsecutiveLossLimit
  /\ \A i \in 1..Len(st.trades_today) :
       i > Len(st.trades_today) - DefaultConsecutiveLossLimit => st.trades_today[i].pnl < 0

LimitReached ==
  \/ SessionLossReached(session_state)
  \/ MaxPositionsReached(session_state, config)
  \/ LossRunReached(session_state)

\* C28: in a state whose session loss has reached max_session_risk_pct, or
\* whose open positions have reached max_positions, or whose last trades are
\* a run of losses as long as the consecutive-loss limit, the risk limit
\* check answers can_trade = false and validate_trade approves no request.
C28_LimitsBlockTrading ==
  LimitReached =>
    /\ last.node = "check_risk_limits" => ~last.checks.can_trade
    /\ last.node = "validate_trade" => ~last.validation.approved

C28_Witness ==
  /\ last.node = "validate_trade"
  /\ LossRunReached(session_state)
  /\ ~SessionLossReached(session_state)
  /\ ~MaxPositionsReached(session_state, config)
  /\ Len(session_state.trades_today) = DefaultConsecutiveLossLimit
  /\ instrument_spec_loaded(session_state, agent_outputs)
  /\ last.request.risk_tenths = 10
  /\ ~last.validation.approved

(* ---------------------- the opening of a traversal -------------------- *)

\* C29: in a traversal the emergency check, with its router, executes once,
\* as the sixth node, right after contingency and before any phase check: it
\* is never the node executed at any other position, a phase check executes
\* only after it, and a loop-back from logging_audit leads to check_phase,
\* never back to emergency_check. (Stated of the node executed last; every
\* prefix of path was the path of an earlier state.)
C29_EmergencyCheckedOnce ==
  /\ (Len(path) > 0 /\ LastExecuted = "emergency_check") =>
       /\ Len(path) = Len(InitChain)
       /\ path[Len(path) - 1] = "contingency"
  /\ last.node = "emergency_check" =>
       /\ Len(path) = Len(InitChain)
       /\ LastExecuted = "emergency_check"
       /\ last.route \in {"continue", "stop"}
  /\ Len(path) >= Len(InitChain) => path[Len(InitChain)] = "emergency_check"
  /\ (Len(path) > 0 /\ LastExecuted = "check_phase") => Len(path) > Len(InitChain)
  /\ Len(path) = Len(InitChain) + 1 => LastExecuted = "check_phase"
  /\ node = "emergency_check" => Len(path) = Len(InitChain) - 1
  /\ (last.node = "logging_audit" /\ last.route = "continue" /\ node # "idle") =>
       node = "check_phase"
  /\ (Len(path) > Len(InitChain) /\ node # "idle") => ~state.emergency_stop

C29_Witness ==
  /\ loopbacks = 2
  /\ node = "check_phase"
  /\ last.node = "logging_audit"
  /\ Visits("emergency_check") = 1
  /\ Visits("check_phase") = 2
  /\ Visits("logging_audit") = 2

\* the nodes the phase router dispatches to
PhaseTargets == {PhaseEdges(ph) : ph \in Phases} \ {END}

\* C30: every traversal, the one of start_session and the one of each
\* process_cycle, enters the graph at system_init with an empty path, and
\* its path opens with system_init, risk_mgmt, market_structure,
\* economic_calendar, contingency, emergency_check, in this order: all six
\* have executed when the phase check runs and when the phase router has
\* dispatched, whatever the phase the traversal started in.
C30_OpeningChain ==
  /\ [](/\ IF Len(path) <= Len(InitChain)
           THEN path = SubSeq(InitChain, 1, Len(path))
           ELSE SubSeq(path, 1, Len(InitChain)) = InitChain
        /\ (node = "check_phase" \/ last.node = "check_phase" \/
            (Len(path) > 0 /\ LastExecuted \in PhaseTargets \cup {"check_phase"}))
             => Len(path) >= Len(InitChain))
  /\ [][(node = "idle" /\ node' # "idle") =>
          (node' = "system_init" /\ path' = << >> /\ state' = session_state)]_vars

C30_Witness ==
  /\ prev.phase = "post_market"
  /\ last.node = "check_phase"
  /\ node = "session_review"
  /\ traversals = MaxTraversals
  /\ path = InitChain \o <<"check_phase">>

(* --------------------------- the cycle counter ------------------------ *)

\* C31: the cycle counter belongs to the orchestrator, not to the state a
\* traversal carries, and nothing resets it: it never decreases, it changes
\* only by the one the continue/end router adds after logging_audit, and a
\* logging_audit visit that finds it above the limit is the first and only
\* one of its traversal: the router answers end, no loop-back was taken and
\* the phase check has executed once.
C31_CounterNeverReset ==
  /\ [](/\ "workflow_cycles" \notin DOMAIN state
        /\ (last.node = "logging_audit" /\ last.cycles > CycleLimit) =>
             /\ last.route = "end"
             /\ node = "idle"
             /\ loopbacks = 0
             /\ Visits("logging_audit") = 1
             /\ Visits("check_phase") = 1)
  /\ [][/\ workflow_cycles' >= workflow_cycles
        /\ workflow_cycles' # workflow_cycles =>
             (node = "logging_audit" /\ workflow_cycles' = workflow_cycles + 1)]_vars

C31_Witness ==
  /\ traversals = 2
  /\ last.node = "logging_audit"
  /\ last.cycles = CycleLimit + 1
  /\ workflow_cycles = CycleLimit + 2
  /\ loopbacks = 0
  /\ node = "idle"

\* the nodes of the longest round: check_phase, a phase chain, logging_audit
RoundLength ==
  LET lens == {Len(c) + 2 : c \in PhaseChains} IN
  CHOOSE n \in lens : \A m \in lens : m <= n

\* the most nodes a traversal executes under the cycle limit
MostNodes == Len(InitChain) + (CycleLimit + 1) * RoundLength

\* C32: a traversal executes at most 6 nodes of the opening chain and 6
\* rounds of at most 7 nodes, fewer than the engine's recursion limit of 100,
\* and when it ends without an exception it ends by a router's answer: stop
\* of the emergency router, shutdown of the phase router or end of the
\* continue/end router.
C32_BelowRecursionLimit ==
  /\ [](/\ Len(path) <= MostNodes
        /\ MostNodes < RecursionLimit
        /\ Len(path) <= Len(InitChain) + (loopbacks + 1) * RoundLength
        /\ loopbacks <= CycleLimit)
  /\ [][(node # "idle" /\ node' = "idle" /\ ~escaped') =>
          \/ last'.node = "emergency_check" /\ last'.route = "stop"
          \/ last'.node = "check_phase" /\ last'.route = "shutdown"
          \/ last'.node = "logging_audit" /\ last'.route = "end"]_vars

C32_Witness ==
  /\ Len(path) = MostNodes
  /\ loopbacks = CycleLimit
  /\ node = "idle"
  /\ last.node = "logging_audit"
  /\ last.route = "end"

(* ------------------------------ completion ---------------------------- *)

\* the session has gone through its phases and is shut down, no emergency
Completed ==
  /\ session_state.phase = "shutdown"
  /\ ~session_state.emergency_stop

\* C33 (the claim): a fresh session whose market is open and whose steps all
\* succeed, called again and again while the wall clock passes the session
\* duration, gets to shutdown through session_open, active_trading and
\* post_market, without an emergency.
C33_CompletionReached == (runner = "caller") => <>Completed

(* ------------------------------ the run loop -------------------------- *)

\* C34: is_active is false in every state whose latch is set, so a run loop
\* starts no traversal once the latch is set: the step that sets it, the
\* emergency check of a traversal or emergency_shutdown, leaves the graph
\* idle, and under a run loop it stays idle, no agent step executing again.
C34_NoTraversalAfterLatch ==
  /\ [](session_state.emergency_stop => ~is_active(session_state, config, now))
  /\ [][/\ (~session_state.emergency_stop /\ session_state'.emergency_stop) =>
             node' = "idle"
        /\ (session_state.emergency_stop /\ node = "idle" /\ runner # "main.start") =>
             (node' = "idle" /\ path' = path /\ agent_outputs' = agent_outputs)]_vars

C34_Witness ==
  /\ runner = "stopped"
  /\ last.node = "is_active"
  /\ last.route = "false"
  /\ session_state.emergency_stop
  /\ session_state.stop_reason = Some(LossLimitReason(-3))
  /\ session_state.phase # "shutdown"
  /\ Len(path) = Len(InitChain)
  /\ now = 0

\* C35: a run loop ends: it starts a traversal only when is_active is true,
\* every traversal comes to its end, and as the wall clock advances is_active
\* becomes false, by the session timeout if by nothing else, so the loop
\* leaves after finitely many traversals.
C35_RunTerminates ==
  /\ [][(runner \in RunLoops /\ node = "idle" /\ node' # "idle") =>
          is_active(session_state, config, now)]_vars
  /\ (runner # "caller") ~> (runner = "stopped" /\ node = "idle")

C35_Witness ==
  /\ runner = "stopped"
  /\ last.node = "is_active"
  /\ last.route = "false"
  /\ ~session_state.emergency_stop
  /\ session_state.phase = "session_open"
  /\ now - session_state.start_time > MaxHours
  /\ workflow_cycles = CycleLimit + 1
  /\ traversals = MaxTraversals


(* --------------------------- the trading steps ------------------------ *)
(* entry_execution, trade_management and exit_execution as they follow one *)
(* another in the active_trading chain, on the states of a bounded family. *)
(* Prices are whole numbers of points of 0.00001.                          *)

\* "current_price = 1.25  # Default fallback"
DefaultPrice == 125000
\* .get('tick_size', 0.0001)
DefaultTickSize == 10
\* "buffer_ticks = 2  # Default 2 ticks buffer"
BufferTicks == 2
\* _check_time_exit: "max_duration = 4  # hours"
MaxTradeHours == 4
\* _check_entry_trigger: "<= 0.001", as the divisor of the entry zone
TriggerTolerance == 1000

Abs(x) == IF x < 0 THEN 0 - x ELSE x

\* self.gateway_client as an agent's step finds it. BaseAgent.__init__ sets
\* mcp_client and never gateway_client, so on an agent as constructed the
\* attribute is unset and reading it raises AttributeError; "none" and
\* "client" are what a host that assigns the attribute leaves there.
Gateways == {"unset", "none", "client"}

\* the answers of the gateway to one step: the price of get_market_data
\* (None: not 'ok', or an exception) and the outcome of the order call
GatewayAnswers ==
  [feed : {None, Some(DefaultPrice + 100)}, order : {"executed", "error"}]

\* a gateway that is not there gives no answers
NoAnswers == [feed |-> None, order |-> "error"]

\* the gateway of one step, with the answers it gives
GatewayCases ==
  {[gw |-> g, answers |-> NoAnswers] : g \in {"unset", "none"}} \cup
  {[gw |-> "client", answers |-> a] : a \in GatewayAnswers}

\* the price a step works with once it has read self.gateway_client
current_price(gw, answers) ==
  IF gw = "client" /\ answers.feed # None THEN answers.feed[1] ELSE DefaultPrice

\* _check_entry_trigger: only a long pullback whose entry zone the price is
\* within 0.1% of fires; the attribute is read, and the division made, only
\* on the way there
check_entry_trigger(setup, gw, answers) ==
  LET price == current_price(gw, answers) IN
  IF setup.type # "pullback"
  THEN [raised |-> FALSE, triggered |-> FALSE, entry_price |-> None]
  ELSE IF gw = "unset"
  THEN [raised |-> TRUE, triggered |-> FALSE, entry_price |-> None]
  ELSE IF setup.direction # "long"
  THEN [raised |-> FALSE, triggered |-> FALSE, entry_price |-> None]
  ELSE IF setup.entry_zone = 0
  THEN [raised |-> TRUE, triggered |-> FALSE, entry_price |-> None]
  ELSE IF TriggerTolerance * Abs(price - setup.entry_zone) <= setup.entry_zone
  THEN [raised |-> FALSE, triggered |-> TRUE, entry_price |-> Some(price)]
  ELSE [raised |-> FALSE, triggered |-> FALSE, entry_price |-> None]

\* _execute_entry_order: with a client the order goes to hb_place_order,
\* whose exceptions are caught here; without one the result is a mock
execute_entry_order(gw, answers) ==
  CASE gw = "unset"  -> [success |-> FALSE, place_order_calls |-> 0]
    [] gw = "none"   -> [success |-> TRUE, place_order_calls |-> 0]
    [] gw = "client" -> [success |-> (answers.order = "executed"), place_order_calls |-> 1]

\* the setups of the recorded scanner output: .get('result', {}).get('setups', [])
scanner_setups(outputs) ==
  LET scanner_output == outputs["setup_scanner"] IN
  IF scanner_output.result = None \/ "setups" \notin DOMAIN scanner_output.result[1]
  THEN << >>
  ELSE scanner_output.result[1].setups

\* what an execution of the entry step returns and what it did on the way:
\* the order placements it went into and the place-order calls it made
EntryResult(status, trigger, validation, attempts, calls) ==
  [status |-> status, entry_trigger |-> trigger, risk_validation |-> validation,
   order_attempts |-> attempts, place_order_calls |-> calls]

\* an entry step that places the order whatever the validation says
entry_execution_execute_logic_unvalidated(outputs, st, cfg, gw, answers, req) ==
  IF "setup_scanner" \notin DOMAIN outputs \/ scanner_setups(outputs) = << >>
  THEN EntryResult("no_action", None, None, 0, 0)
  ELSE LET entry_trigger == check_entry_trigger(scanner_setups(outputs)[1], gw, answers) IN
       IF entry_trigger.raised THEN EntryResult("error", None, None, 0, 0)
       ELSE IF ~entry_trigger.triggered
       THEN EntryResult("waiting", Some(entry_trigger), None, 0, 0)
       ELSE LET risk_validation == validate_trade(req, st, outputs, cfg)
                order_result    == execute_entry_order(gw, answers) IN
            EntryResult(IF order_result.success THEN "executed" ELSE "failed",
                        Some(entry_trigger), Some(risk_validation), 1,
                        order_result.place_order_calls)

\* EntryExecutionAgent._execute_logic
entry_execution_execute_logic(outputs, st, cfg, gw, answers, req) ==
  IF "setup_scanner" \notin DOMAIN outputs
  THEN EntryResult("no_action", None, None, 0, 0)
  ELSE IF scanner_setups(outputs) = << >>
  THEN EntryResult("no_action", None, None, 0, 0)
  ELSE LET best_setup    == scanner_setups(outputs)[1]
           entry_trigger == check_entry_trigger(best_setup, gw, answers) IN
       IF entry_trigger.raised THEN EntryResult("error", None, None, 0, 0)
       ELSE IF ~entry_trigger.triggered
       THEN EntryResult("waiting", Some(entry_trigger), None, 0, 0)
       ELSE LET risk_validation == validate_trade(req, st, outputs, cfg) IN
            IF ~risk_validation.approved
            THEN EntryResult("rejected", Some(entry_trigger), Some(risk_validation), 0, 0)
            ELSE LET order_result == execute_entry_order(gw, answers) IN
                 EntryResult(IF order_result.success THEN "executed" ELSE "failed",
                             Some(entry_trigger), Some(risk_validation), 1,
                             order_result.place_order_calls)

\* tick_size of the instrument specs in system_init's recorded result
tick_size(outputs) ==
  IF /\ "system_init" \in DOMAIN outputs
     /\ outputs["system_init"].result # None
     /\ "tick_size" \in DOMAIN outputs["system_init"].result[1]
  THEN outputs["system_init"].result[1].tick_size
  ELSE DefaultTickSize

\* _calculate_r_multiple >= 1.0, the level of the breakeven move and of T1
reached_one_r(position, price) ==
  LET risk   == Abs(position.entry_price - position.stop_loss)
      profit == IF position.direction = "long"
                THEN price - position.entry_price
                ELSE position.entry_price - price IN
  risk > 0 /\ profit >= risk

\* _trail_stop_at_pivots: the trail_stop action of a position, if any
trail_stop_at_pivots(position, st, outputs) ==
  IF st.trend = None THEN << >>
  ELSE LET recent_lows == st.trend[1].swing_points.recent_lows IN
       IF position.direction = "long" /\ recent_lows # << >>
       THEN LET last_low == recent_lows[Len(recent_lows)].price IN
            IF last_low > position.stop_loss
            THEN <<[action |-> "trail_stop", position_id |-> position.id,
                    new_stop |-> last_low - BufferTicks * tick_size(outputs)]>>
            ELSE << >>
       ELSE << >>

\* _manage_position, once self.gateway_client has been read
manage_position(position, st, outputs, price) ==
  (IF reached_one_r(position, price) /\ position.stop_loss # position.entry_price
   THEN <<[action |-> "move_to_breakeven", position_id |-> position.id,
           new_stop |-> position.entry_price]>>
   ELSE << >>) \o
  (IF ~position.partial_exit_taken /\ reached_one_r(position, price)
   THEN <<[action |-> "partial_exit", position_id |-> position.id, exit_price |-> price]>>
   ELSE << >>) \o
  trail_stop_at_pivots(position, st, outputs)

RECURSIVE ManageAll(_, _, _, _)
ManageAll(positions, st, outputs, price) ==
  IF positions = << >> THEN << >>
  ELSE manage_position(Head(positions), st, outputs, price) \o
       ManageAll(Tail(positions), st, outputs, price)

\* TradeManagementAgent._execute_logic: _manage_position reads
\* self.gateway_client first, outside any try of its own
trade_management_execute_logic(st, outputs, gw, answers) ==
  IF st.positions = << >>
  THEN [status |-> "no_action", positions_managed |-> 0, actions |-> << >>]
  ELSE IF gw = "unset"
  THEN [status |-> "error", positions_managed |-> 0, actions |-> << >>]
  ELSE [status |-> "success", positions_managed |-> Len(st.positions),
        actions |-> ManageAll(st.positions, st, outputs, current_price(gw, answers))]

\* _check_position_exit, once self.gateway_client has been read: the target,
\* the stop, the time in the trade and the trend signal, in this order
should_exit(position, st, price, t) ==
  \/ /\ position.target_2 # None
     /\ \/ position.direction = "long" /\ price >= position.target_2[1]
        \/ position.direction = "short" /\ price <= position.target_2[1]
  \/ position.direction = "long" /\ price <= position.stop_loss
  \/ position.direction = "short" /\ price >= position.stop_loss
  \/ t - position.entry_time >= MaxTradeHours
  \/ /\ st.trend # None
     /\ st.trend[1].trend_state = "reversing"
     /\ \/ position.direction = "long" /\ st.trend[1].trend = "downtrend"
        \/ position.direction = "short" /\ st.trend[1].trend = "uptrend"

\* what an execution of the exit step returns and what it did on the way:
\* the positions whose check it went into, those whose check came back, and
\* those it went on to close
ExitResult(status, entered, checked, closed) ==
  [status |-> status, entered |-> entered, checked |-> checked, closed |-> closed]

\* ExitExecutionAgent._execute_logic: _check_position_exit reads
\* self.gateway_client first, outside any try of its own, so on an agent
\* without the attribute the loop is left in the check of the first position
exit_execution_execute_logic(st, outputs, gw, answers, t) ==
  LET entry_status == IF "entry_execution" \in DOMAIN outputs
                      THEN outputs["entry_execution"].status ELSE ""
      positions    == st.positions IN
  IF entry_status \in {"waiting", "rejected"} THEN ExitResult("skipped", {}, {}, {})
  ELSE IF positions = << >> THEN ExitResult("no_action", {}, {}, {})
  ELSE IF gw = "unset" THEN ExitResult("error", {1}, {}, {})
  ELSE ExitResult("success", DOMAIN positions, DOMAIN positions,
                  {i \in DOMAIN positions :
                     should_exit(positions[i], st, current_price(gw, answers), t)})

\* most positions in a book of the family
MaxBook == 2

\* the setups of a scanner result; the scanner names its types TST, BOF, BPB,
\* PB and CPB, the trigger knows 'pullback'
Setups ==
  {[type |-> "pullback", direction |-> "long", entry_zone |-> z] :
     z \in {0, DefaultPrice, DefaultPrice + 200}} \cup
  {[type |-> "pullback", direction |-> "short", entry_zone |-> DefaultPrice],
   [type |-> "PB", direction |-> "long", entry_zone |-> DefaultPrice]}

ScannerResult(setups) ==
  [status |-> "success",
   result |-> Some([status |-> "success", setups |-> setups]),
   error  |-> None]

\* agent_outputs as the scanner leaves them: nothing, an error, or a result
ScannerOutputs ==
  {<< >>, "setup_scanner" :> [status |-> "error", result |-> None, error |-> Some(StepError)],
   "setup_scanner" :> ScannerResult(<< >>)} \cup
  {"setup_scanner" :> ScannerResult(<<s>>) : s \in Setups}

\* system_init's recorded result with the tick size of its instrument specs
SystemInitOutput(tick) ==
  "system_init" :> [status |-> "success",
                    result |-> Some([status |-> "success", tick_size |-> tick]),
                    error  |-> None]

TradePosition(i, direction, stop_loss, target_2) ==
  [id |-> i, direction |-> direction, entry_price |-> DefaultPrice - 50,
   stop_loss |-> stop_loss, target_2 |-> target_2, entry_time |-> 0,
   partial_exit_taken |-> FALSE, notional_value |-> 1, risk_amount |-> 0]

\* the books of at most MaxBook positions, each with its place as its id
Books ==
  UNION {{[i \in 1..n |-> [b[i] EXCEPT !.id = i]] :
            b \in [1..n -> {TradePosition(0, d, s, g) :
                              d \in {"long", "short"},
                              s \in {DefaultPrice - 100, DefaultPrice},
                              g \in {None, Some(DefaultPrice)}}]} : n \in 0..MaxBook}

Trend(trend, trend_state, lows) ==
  Some([trend |-> trend, trend_state |-> trend_state,
        swing_points |-> [recent_lows |-> lows]])

\* the pivot lows of the trend data, the last one below, just above and well
\* above the stops of the books
PivotLows ==
  {<< >>} \cup
  {<<[price |-> DefaultPrice - 300], [price |-> p]>> :
     p \in {DefaultPrice - 200, DefaultPrice - 90, DefaultPrice - 50}}

\* the state at the entry step
TradeState(pnl, positions, trend) ==
  [initialize_state(config, "uuid-1", 0) EXCEPT
     !.phase = "active_trading",
     !.session_pnl = pnl, !.session_pnl_pct = pnl,
     !.positions = positions,
     !.open_positions_count = Len(positions),
     !.trend = trend]

\* the scanner outputs, instruments and session losses that decide the entry
EntryFamily ==
  /\ config \in ConfigsRisk
  /\ config.max_positions = None
  /\ \E scanned \in ScannerOutputs, init \in {<< >>, "system_init" :> Entry("success")} :
       agent_outputs = scanned @@ init
  /\ \E pnl \in {-3, 0} : session_state = TradeState(pnl, << >>, None)
  /\ now = 0

\* the books, prices, times and trend signals that decide the exits
ExitFamily ==
  /\ config \in ConfigsLive
  /\ config.duration_hours = None
  /\ \E scanned \in {<< >>,
                     "setup_scanner" :> ScannerResult(<<[type |-> "PB", direction |-> "long",
                                                        entry_zone |-> DefaultPrice]>>),
                     "setup_scanner" :> ScannerResult(<<[type |-> "pullback", direction |-> "long",
                                                        entry_zone |-> DefaultPrice]>>)} :
       agent_outputs = scanned @@ ("system_init" :> Entry("success"))
  /\ \E pnl \in {-3, 0}, book \in Books,
        trend \in {None, Trend("downtrend", "reversing", << >>)} :
       session_state = TradeState(pnl, book, trend)
  /\ now \in {0, MaxTradeHours}

\* the stops, pivot lows and tick sizes that decide the trailing stop
TrailFamily ==
  /\ config \in ConfigsLive
  /\ config.duration_hours = None
  /\ agent_outputs \in {<< >>} \cup {SystemInitOutput(t) : t \in {1, DefaultTickSize}}
  /\ \E book \in Books, lows \in PivotLows :
       /\ Len(book) = 1
       /\ book[1].target_2 = None
       /\ session_state = TradeState(0, book, Trend("uptrend", "trending", lows))
  /\ now = 0

InitTrade ==
  /\ (EntryFamily \/ ExitFamily \/ TrailFamily)
  /\ state = session_state
  /\ alerts = << >>
  /\ workflow_cycles = 0
  /\ node = "entry_execution"
  /\ escaped = FALSE
  /\ path = << >>
  /\ loopbacks = 0
  /\ last = NoStep
  /\ prev = session_state
  /\ faults = 0
  /\ traversals = 0
  /\ first = None
  /\ runner = "caller"

\* a step of the chain: BaseAgent.execute records the status of the result
\* under the agent's id and the unconditional edge is followed
TradeStep(result, gateway) ==
  /\ agent_outputs' = update_state(agent_outputs, node, [status |-> result.status])
  /\ last' = Step(node, "ok", "") @@ [gateway |-> gateway, result |-> result]
  /\ node' = Edge(node)
  /\ path' = Append(path, node)
  /\ prev' = state
  /\ UNCHANGED <<first, config, session_state, state, alerts, workflow_cycles, now,
                 escaped, loopbacks, faults, traversals, runner>>

EntryExecution ==
  /\ node = "entry_execution"
  /\ \E g \in GatewayCases, req \in TradeRequests :
       TradeStep(entry_execution_execute_logic(agent_outputs, state, config, g.gw,
                                               g.answers, req) @@ [request |-> req], g)

TradeManagement ==
  /\ node = "trade_management"
  /\ \E g \in GatewayCases :
       TradeStep(trade_management_execute_logic(state, agent_outputs, g.gw, g.answers), g)

ExitExecution ==
  /\ node = "exit_execution"
  /\ \E g \in GatewayCases :
       TradeStep(exit_execution_execute_logic(state, agent_outputs, g.gw, g.answers, now), g)

\* _trail_stop_at_pivots on one position of the book, by itself
TrailStopAtPivots ==
  /\ node = "trade_management"
  /\ \E i \in DOMAIN state.positions :
       last' = Step("trail_stop_at_pivots", "ok", "") @@
               [result |-> [status |-> "success",
                            actions |-> trail_stop_at_pivots(state.positions[i], state,
                                                             agent_outputs)]]
  /\ UNCHANGED <<first, config, session_state, state, agent_outputs, alerts,
                 workflow_cycles, node, now, escaped, path, loopbacks, prev, faults,
                 traversals, runner>>

NextTrade ==
  \/ EntryExecution
  \/ TradeManagement
  \/ TrailStopAtPivots
  \/ ExitExecution

SpecTrade == InitTrade /\ [][NextTrade]_vars


(* ------------------------------ the entry ----------------------------- *)

\* the gates of the entry step, from what the step was given
SetupAvailable ==
  /\ "setup_scanner" \in DOMAIN agent_outputs
  /\ scanner_setups(agent_outputs) # << >>

TriggerOfBest ==
  check_entry_trigger(scanner_setups(agent_outputs)[1], last.gateway.gw,
                      last.gateway.answers)

ValidationOfRequest == validate_trade(last.result.request, state, agent_outputs, config)

NoOrder(r) == r.order_attempts = 0 /\ r.place_order_calls = 0

RecordedEntryStatus ==
  IF "entry_execution" \in DOMAIN agent_outputs
  THEN agent_outputs["entry_execution"].status ELSE ""

\* the exit step was skipped: nothing checked, nothing closed
SkippedAll ==
  /\ last.result.status = "skipped"
  /\ agent_outputs["exit_execution"].status = "skipped"
  /\ last.result.entered = {}
  /\ last.result.checked = {}
  /\ last.result.closed = {}

\* the first half of C37 alone: with a recorded entry status of waiting or
\* rejected the exit step is skipped, whatever the book holds
C37_SkippedOnWaitingOrRejected ==
  (last.node = "exit_execution" /\ RecordedEntryStatus \in {"waiting", "rejected"}) =>
    SkippedAll

\* C37 (the claim): with a recorded entry_execution status of waiting or
\* rejected, exit_execution records skipped and checks or closes no position,
\* whatever the open positions and their stop or target levels; with any
\* other entry status it checks every open position.
C37_SkipsOrChecksAll ==
  last.node = "exit_execution" =>
    IF RecordedEntryStatus \in {"waiting", "rejected"}
    THEN SkippedAll
    ELSE last.result.checked = DOMAIN state.positions


(* --------------------------- the trailing stop ------------------------ *)

\* the trail_stop actions of the last step of trade management
TrailStops ==
  IF last.node \in {"trade_management", "trail_stop_at_pivots"}
  THEN {last.result.actions[i] : i \in {j \in DOMAIN last.result.actions :
                                          last.result.actions[j].action = "trail_stop"}}
  ELSE {}

\* C38 (the claim): every trail_stop action of trade management proposes a
\* new_stop strictly above the current stop_loss of its position, whatever
\* the pivot lows, the stop and the tick size are.
C38_TrailOnlyUp ==
  \A a \in TrailStops : a.new_stop > state.positions[a.position_id].stop_loss

\* what the code keeps: the pivot the stop is trailed at is above the stop
C38_PivotAboveStop ==
  \A a \in TrailStops :
    a.new_stop + BufferTicks * tick_size(agent_outputs) >
      state.positions[a.position_id].stop_loss

====
